---- MODULE Spec2Model ----
(***************************************************************************)
(* State-machine model of the nix-diff-action diff pipeline:               *)
(*   - GitService.createWorktree / removeWorktree (services/git.ts)        *)
(*   - NixService.prefetchFlakeInputs / getNixPath / getDixDiff            *)
(*     (services/nix.ts)                                                   *)
(*   - processNixOutput / processDiffResults (programs/full.ts)            *)
(*   - runDiffPipeline, loadDiffPipelineConfig, loadCommentConfig          *)
(*     (programs/shared.ts), runFull, runDiff, program and run (main.ts)   *)
(*   - the standalone post-step cleanup entry point (cleanup.js)           *)
(* Every external command is issued (a "start" event, the call is in       *)
(* flight), finishes in the outside world (ExternalFinish: its result is   *)
(* fixed and its effect on the repository's worktrees happens) and is then *)
(* observed by the fiber that awaits it (a "Return" action).               *)
(***************************************************************************)
EXTENDS Integers, Sequences, FiniteSets, TLC

\* ------------------------------------------------------------------ bounds
\* The longest attribute list a run is given.
MaxTargets == 2

\* The longest list of results of unequal diff lengths a report is formatted from.
MaxResults == 2
\* the lines of a diff given to a filter
MaxLines == 4

\* ------------------------------------------------------- values of the run
\* the targets a run can be given, in the order it is given them
TargetPool ==
  << [displayName |-> "host1", attribute |-> "nixosConfigurations.host1"],
     [displayName |-> "host2", attribute |-> "nixosConfigurations.host2"],
     [displayName |-> "host3", attribute |-> "nixosConfigurations.host3"],
     [displayName |-> "host4", attribute |-> "nixosConfigurations.host4"] >>

\* the attribute lists of the runs: the first k targets, k up to MaxTargets
AttributeLists == { SubSeq(TargetPool, 1, k) : k \in 0..MaxTargets }

Cwd == "/workspace/repo"
SubDirectory == "/workspace/repo/packages/myflake"
Directories == {Cwd, SubDirectory}

BaseRefName == "main"
BaseSha == "abc123def456"
HeadSha == "789ghi012jkl"

\* nodePath.join(realpath(tmpdir), `dix-base-${sanitizeBranchName(baseRef)}-${runId}`)
WorktreePath == "/tmp/dix-base-main-run1"

Sides == {"base", "head"}

\* the three modes of operation, and the values the mode input can have
Modes == {"full", "diff-only", "comment-only"}
ModeInputs == Modes \cup {"bogus"}

\* What the run finds when it reads and validates its inputs: pr, the event is
\* a pull request; attributes, the attributes input; directory, the directory
\* input passes validateDirectory; strategy, the comment-strategy input passes
\* parseCommentStrategy; config, the typed inputs (build) parse.
Validities ==
  [pr : BOOLEAN, attributes : {"ok", "missing", "malformed"}, directory : BOOLEAN,
   strategy : BOOLEAN, config : BOOLEAN]

\* ------------------------------------------------------------ flake refs
\* A flake reference string `<scheme>:<path>?dir=<dir>#<attr>` kept as its parts.
FlakeRef(scheme, path, dir, attr) ==
  [scheme |-> scheme, path |-> path, dir |-> dir, attr |-> attr]

NoRef == FlakeRef("", "", "", "")

\* nodePath.relative(cwd, directory) for a directory inside cwd
relativePath(cwd, dir) ==
  IF dir = cwd THEN "" ELSE "packages/myflake"

\* mutant: the relative sub-path never encoded
baseFlakeRefNoDir(worktreePath, rel) == FlakeRef("path", worktreePath, "", "")

baseFlakeRef(worktreePath, rel) ==
  IF rel = "" \/ rel = "."
    THEN FlakeRef("path", worktreePath, "", "")
    ELSE FlakeRef("path", worktreePath, rel, "")

prFlakeRef(dir) == FlakeRef("", dir, "", "")

\* `${flakeRef}#${config.attribute}`
WithAttr(ref, attr) == [ref EXCEPT !.attr = attr]

\* ------------------------------------------------------------ errors
\* A tagged error: ref the flake reference it carries (NoRef when none), p1 / p2
\* its string fields (operation; basePath, prPath).
Err(tag, ref, p1, p2, message) ==
  [tag |-> tag, ref |-> ref, p1 |-> p1, p2 |-> p2, message |-> message]
NoError == Err("none", NoRef, "", "", "")

\* ------------------------------------------------- external command results
\* exit: 0 success, 1 non-zero exit status, -1 the command could not be run
\* (exec.exec rejects).  out / err: the captured stdout / stderr as written by
\* the command (a final newline included).
Res(code, out, err) == [state |-> "finished", exit |-> code, out |-> out, err |-> err]
Running == [state |-> "running", exit |-> 0, out |-> "", err |-> ""]

Call(cmd, target, side, by, ref, p1, p2) ==
  [cmd |-> cmd, target |-> target, side |-> side, by |-> by,
   ref |-> ref, p1 |-> p1, p2 |-> p2]

\* ------------------------------------------------------------------ state
VARIABLES
  attributes,        \* options.attributes: the requested targets, in order
  build,             \* options.build
  directory,         \* options.directory (cwd is Cwd)
  pc,                \* position of the main run's fiber
  outcome,           \* how the pipeline scope ended: [kind, error]
  interruptPending,  \* an interruption arrived inside the uninterruptible acquire
  interruptedAt,     \* the phase in which the interruption arrived
  finalizer,         \* the release action is registered in the scope
  releaseRuns,       \* how many times the release action was started
  prefetch,          \* per root: "todo", "run", "done"
  prefetchLogged,    \* Ref prefetchLogged
  logCount,          \* how often the prefetch-failure message was logged
  tprog,             \* per target: progress of base, head and dix
  paths,             \* per target: the resolved base and head store paths
  results,           \* DiffResults collected by Effect.forEach so far
  returned,          \* what runDiffPipeline's scope returned: [ok, val]
  inflight,          \* external commands issued and not yet observed
  calls,             \* log of the external commands issued, in order
  wtExists,          \* a git worktree is registered at WorktreePath
  savedState,        \* core.saveState / getState "worktreePath" ("" = unset)
  cpc,               \* position of the separate cleanup invocation
  cleanupPath,       \* the path the cleanup invocation read from the state
  seen,              \* the exit codes the release and the cleanup observed
  wtCreated,         \* this run's `git worktree add` has created the worktree
  mode,              \* the mode input
  valid,             \* what validation finds in the inputs (see Validities)
  prefetchFailed,    \* how many prefetch calls returned a non-zero exit code
  top,               \* run(): the error that reached it, its setFailed calls,
                     \* and the state of the promise it returned
  output,            \* core.setOutput("diff", ...): [set, val]
  fmtIn,             \* formatAggregatedComment's arguments: [results, options, params]
  fmtOut,            \* what it returned: [done, text, bodies, options]
  fnIn,              \* a utility function and its argument: [fn, arg]
  fnOut              \* what it returned: [done, val]

vars ==
  << attributes, build, directory, pc, outcome, interruptPending, interruptedAt,
     finalizer, releaseRuns, prefetch, prefetchLogged, logCount, tprog, paths,
     results, returned, inflight, calls, wtExists, savedState, cpc, cleanupPath,
     seen, wtCreated, mode, valid, prefetchFailed, top, output, fmtIn, fmtOut,
     fnIn, fnOut >>

inputVars == << attributes, build, directory, mode, valid >>
prefetchVars == << prefetch, prefetchLogged, logCount, prefetchFailed >>
topVars == << top, output >>
fnVars == << fmtIn, fmtOut, fnIn, fnOut >>
targetVars == << tprog, paths, results >>
cleanupVars == << cpc, cleanupPath >>
histVars == << seen, wtCreated >>

N == Len(attributes)

ExitOf(kind, error) == [kind |-> kind, error |-> error]

\* the formatter called without postComment: no params
NoParams == [runId |-> "", showArtifactLinkWhenTruncated |-> FALSE]

\* no report is being formatted
NoFormat ==
  /\ fmtIn = [results |-> << >>, options |-> [runId |-> "", repoUrl |-> ""],
              params |-> NoParams]
  /\ fmtOut = [done |-> FALSE, text |-> << >>, bodies |-> << >>,
               options |-> [runId |-> "", repoUrl |-> ""]]

\* no utility function is being applied
NoUtil ==
  /\ fnIn = [fn |-> "none", arg |-> << >>]
  /\ fnOut = [done |-> FALSE, val |-> << >>]

\* the state of a run that has not started
RunIdle ==
  /\ pc = "init"
  /\ outcome = ExitOf("none", NoError)
  /\ interruptPending = FALSE
  /\ interruptedAt = "none"
  /\ finalizer = FALSE
  /\ releaseRuns = 0
  /\ prefetch = [s \in Sides |-> "todo"]
  /\ prefetchLogged = FALSE
  /\ logCount = 0
  /\ prefetchFailed = 0
  /\ top = [error |-> NoError, setFailed |-> << >>, promise |-> "pending"]
  /\ output = [set |-> FALSE, val |-> ""]
  /\ tprog = [i \in 1..Len(attributes) |-> [base |-> "todo", head |-> "todo", dix |-> "todo"]]
  /\ paths = [i \in 1..Len(attributes) |-> [base |-> "", head |-> ""]]
  /\ results = << >>
  /\ returned = [ok |-> FALSE, val |-> << >>]
  /\ inflight = {}
  /\ calls = << >>
  /\ savedState = ""
  /\ cpc = "idle"
  /\ cleanupPath = ""
  /\ seen = [release |-> << >>, cleanup |-> << >>]
  /\ wtCreated = FALSE

Init ==
  /\ NoFormat
  /\ NoUtil
  /\ attributes \in AttributeLists
  /\ build \in BOOLEAN
  /\ directory \in Directories
  /\ mode \in ModeInputs
  /\ valid \in Validities
  /\ wtExists \in BOOLEAN      \* a stale worktree of an earlier failed run may exist
  /\ RunIdle

\* --------------------------------------------------- the command machinery
Flight(c) == [call |-> c, res |-> Running]
Seen(x) == [cmd |-> x.call.cmd, exit |-> x.res.exit]

Finished(cmd, by) ==
  { x \in inflight : x.call.cmd = cmd /\ x.call.by = by /\ x.res.state = "finished" }

\* The results the outside world can give a command.
Outcomes(c) ==
  CASE c.cmd = "probe" ->
         { Res(0, IF wtExists THEN WorktreePath ELSE "", ""), Res(1, "", "") }
    [] c.cmd = "remove" ->
         (IF wtExists THEN { Res(0, "", "") } ELSE {}) \cup { Res(1, "", "") }
    [] c.cmd = "fetch" -> { Res(0, "", ""), Res(1, "", "") }
    [] c.cmd = "add" ->
         (IF wtExists THEN {} ELSE { Res(0, "", "") }) \cup { Res(1, "", "") }
    [] c.cmd = "prefetch" -> { Res(0, "", ""), Res(1, "", ""), Res(-1, "", "") }
    [] c.cmd = "build" -> { Res(0, "", ""), Res(1, "", ""), Res(1, "", "build failed\n") }
    [] c.cmd = "pathinfo" ->
         { Res(0, IF c.side = "base" THEN "/nix/store/aaa\n" ELSE "/nix/store/bbb\n", ""),
           Res(0, "", ""), Res(0, "\n", ""), Res(1, "", "no such attribute\n"),
           Res(-1, "", "") }
    [] c.cmd = "dix" ->
         { Res(0, "", ""), Res(0, "DIFF\n", "warning\n"),
           Res(1, "", ""), Res(1, "DIFF\n", "dix crashed\n") }
    [] c.cmd \in {"upload", "download", "comment"} ->
         { Res(0, "", ""), Res(1, "", "request failed") }

\* The command runs outside the process: its result is fixed and its effect on
\* the repository happens, whether or not anyone is still waiting for it.
ExternalFinish ==
  \E x \in inflight :
    /\ x.res.state = "running"
    /\ \E r \in Outcomes(x.call) :
         /\ inflight' = (inflight \ {x}) \cup { [call |-> x.call, res |-> r] }
         /\ wtExists' = CASE x.call.cmd = "remove" /\ r.exit = 0 -> FALSE
                          [] x.call.cmd = "add" /\ r.exit = 0 -> TRUE
                          [] OTHER -> wtExists
         /\ wtCreated' = (wtCreated \/ (x.call.cmd = "add" /\ r.exit = 0))
    /\ UNCHANGED << inputVars, fnVars, topVars, seen, pc, outcome, interruptPending, interruptedAt, finalizer,
                    releaseRuns, prefetchVars, targetVars, returned, calls,
                    savedState, cleanupVars >>

\* ------------------------------------------------- main.ts: run
\* the tags Effect.catchTags has a handler for
CatchTags ==
  { "InvalidModeError", "NotPullRequestContextError", "MissingAttributesError",
    "AttributeParseError", "InvalidCommentStrategyError", "InvalidDirectoryError",
    "GitWorktreeError", "NixPathInfoError", "NixBuildError", "NixDixError",
    "GitHubApiError", "ArtifactError" }

\* A message: its pieces of text in order, "<ref>" standing for the flake
\* reference ref.
Msg(text, ref) == [text |-> text, ref |-> ref]

\* the message each handler gives setFailed
setFailedMessage(e) ==
  CASE e.tag = "InvalidModeError" -> Msg(<< "Invalid mode: ", e.p1 >>, NoRef)
    [] e.tag = "InvalidCommentStrategyError" ->
         Msg(<< "Invalid comment strategy: ", e.p1 >>, NoRef)
    [] e.tag \in { "NotPullRequestContextError", "MissingAttributesError",
                   "AttributeParseError", "InvalidDirectoryError" } ->
         Msg(<< e.message >>, NoRef)
    [] e.tag = "GitWorktreeError" -> Msg(<< "Git ", e.p1, " failed: ", e.message >>, NoRef)
    [] e.tag = "NixPathInfoError" ->
         Msg(<< "Nix path-info failed for ", "<ref>", ": ", e.message >>, e.ref)
    [] e.tag = "NixBuildError" ->
         Msg(<< "Nix build failed for ", "<ref>", ": ", e.message >>, e.ref)
    [] e.tag = "NixDixError" ->
         Msg(<< "Nix dix failed comparing ", e.p1, " vs ", e.p2, ": ", e.message >>, NoRef)
    [] e.tag = "GitHubApiError" -> Msg(<< "GitHub ", e.p1, " failed: ", e.message >>, NoRef)
    [] e.tag = "ArtifactError" -> Msg(<< "Artifact ", e.p1, " failed: ", e.message >>, NoRef)
    [] e.tag = "ConfigError" -> Msg(<< "Configuration error: ", e.message >>, NoRef)
    [] OTHER -> Msg(<< "Unexpected error: ", e.tag >>, NoRef)

\* mutant: the failure also reported where it is logged (tapError), so that a
\* handled error is reported twice
runCatchTapReports(e) ==
  [setFailed |-> << Msg(<< "Action failed" >>, NoRef), setFailedMessage(e) >>,
   promise |-> "resolved"]

\* run: tapError only logs; catchTags, catchIf(isConfigError) and catchAll
\* between them handle every error of the error channel, each by one setFailed;
\* the handled effect succeeds, so the promise resolves.
runCatch(e) ==
  [setFailed |-> << setFailedMessage(e) >>, promise |-> "resolved"]

\* How run()'s promise settles: kind is "success", "failure" (error e in the
\* error channel), "interrupted" or "defect" (a thrown exception); the last
\* two are not errors of the error channel and reject the promise.
RunEnd(kind, e) ==
  /\ pc' = "done"
  /\ top' = CASE kind = "success" -> [top EXCEPT !.promise = "resolved"]
              [] kind = "failure" ->
                   [error |-> e,
                    setFailed |-> top.setFailed \o runCatch(e).setFailed,
                    promise |-> runCatch(e).promise]
              [] OTHER -> [top EXCEPT !.promise = "rejected"]

\* ------------------------------------------------- configuration
\* ActionConfig.mode: a value outside the three modes is an InvalidModeError
modeError(m) ==
  IF m \in Modes THEN NoError ELSE Err("InvalidModeError", NoRef, m, "", "")

\* loadCommentConfig: parseCommentStrategy(commentStrategyInput)
loadCommentConfig(v) ==
  IF v.strategy THEN NoError
  ELSE Err("InvalidCommentStrategyError", NoRef, "bogus", "", "")

\* githubService.getPullRequest()
getPullRequest(v) ==
  IF v.pr THEN NoError
  ELSE Err("NotPullRequestContextError", NoRef, "", "",
           "This action must be run in a pull request context")

\* mutant: the directory used as given, validateDirectory left out
loadDiffPipelineConfigUnvalidated(v) ==
  IF v.attributes = "missing"
    THEN Err("MissingAttributesError", NoRef, "", "", "attributes input is required")
  ELSE IF ~v.config
    THEN Err("ConfigError", NoRef, "", "", "Expected a boolean value")
  ELSE IF v.attributes = "malformed"
    THEN Err("AttributeParseError", NoRef, "", "", "Failed to parse attributes")
  ELSE NoError

\* loadDiffPipelineConfig: getAttributesInput, the typed inputs, then
\* parseAttributes and validateDirectory
loadDiffPipelineConfig(v) ==
  IF v.attributes = "missing"
    THEN Err("MissingAttributesError", NoRef, "", "", "attributes input is required")
  ELSE IF ~v.config
    THEN Err("ConfigError", NoRef, "", "", "Expected a boolean value")
  ELSE IF v.attributes = "malformed"
    THEN Err("AttributeParseError", NoRef, "", "", "Failed to parse attributes")
  ELSE IF ~v.directory
    THEN Err("InvalidDirectoryError", NoRef, "", "", "Directory is outside the workspace")
  ELSE NoError

\* the first error of a sequence of steps, NoError when every step succeeds
RECURSIVE FirstError(_)
FirstError(steps) ==
  IF steps = << >> THEN NoError
  ELSE IF Head(steps).tag # "none" THEN Head(steps)
  ELSE FirstError(Tail(steps))

\* runDiffPipeline, before Effect.scoped(processDiffResults(...))
runDiffPipelineConfig(v) ==
  FirstError(<< getPullRequest(v), loadDiffPipelineConfig(v) >>)

\* program: the mode, then what the mode's program does before its first
\* external call (runFull: loadCommentConfig, runDiffPipeline's configuration;
\* runDiff: runDiffPipeline's configuration; runComment: loadCommentConfig)
programConfig(m, v) ==
  CASE m = "full" -> FirstError(<< loadCommentConfig(v), runDiffPipelineConfig(v) >>)
    [] m = "diff-only" -> runDiffPipelineConfig(v)
    [] m = "comment-only" -> loadCommentConfig(v)
    [] OTHER -> modeError(m)

DownloadCall == Call("download", 0, "none", "post", NoRef, "", "")
UploadCall(name) == Call("upload", 0, "none", "post", NoRef, name, "")
CommentCall == Call("comment", 0, "none", "post", NoRef, "", "")

ProgramStart ==
  /\ pc = "init"
  /\ LET e == programConfig(mode, valid) IN
       IF e.tag # "none"
         THEN RunEnd("failure", e) /\ UNCHANGED << inflight, calls >>
         ELSE IF mode = "comment-only"
           THEN /\ pc' = "download"
                /\ inflight' = inflight \cup { Flight(DownloadCall) }
                /\ calls' = Append(calls, DownloadCall)
                /\ UNCHANGED top
           ELSE /\ pc' = "start"
                /\ UNCHANGED << top, inflight, calls >>
  /\ UNCHANGED << inputVars, fnVars, output, histVars, outcome, interruptPending, interruptedAt,
                  finalizer, releaseRuns, prefetchVars, targetVars, returned, wtExists,
                  savedState, cleanupVars >>

\* ------------------------------------------------- services/git.ts
ProbeCall(by, path) == Call("probe", 0, "none", by, NoRef, path, "")
RemoveCall(by, path) == Call("remove", 0, "none", by, NoRef, path, "")
FetchCall == Call("fetch", 0, "none", "acquire", NoRef, BaseRefName, "")
AddCall == Call("add", 0, "none", "acquire", NoRef, WorktreePath, BaseRefName)

\* mutant: a failed probe taken for "the worktree exists"
worktreeExistsUnlessListed(res, path) == res.exit # 0 \/ res.out = path

\* worktreeExists: the listing names the path; a failed probe counts as "no".
worktreeExists(res, path) == res.exit = 0 /\ res.out = path

\* mutant: the condition of removeWorktree inverted
removeWorktreeRemovesInverted(exists) == ~exists

\* mutant: the force-remove issued without regard to the probe
removeWorktreeRemovesAlways(exists) == TRUE

\* removeWorktree: force-remove only a worktree the probe reported.
removeWorktreeRemoves(exists) == exists

\* fetchRef / addWorktree: exec.exec rejects on a non-zero exit status.
fetchRef(res) ==
  IF res.exit = 0 THEN NoError
  ELSE Err("GitWorktreeError", NoRef, "fetch", "", "Failed to fetch main")

addWorktree(res) ==
  IF res.exit = 0 THEN NoError
  ELSE Err("GitWorktreeError", NoRef, "create", "", "Failed to create worktree for main")

\* mutant: the release added to the scope whether or not the acquire succeeded
acquireReleaseRegistersAlways(error) == TRUE

\* Effect.acquireRelease: the release is added to the scope when, and only
\* when, the acquire effect succeeded.
acquireReleaseRegisters(error) == error.tag = "none"

\* createWorktree, acquire: removeWorktree(worktreePath) first
CreateWorktreeBegin ==
  /\ pc = "start"
  /\ pc' = "acq_probe"
  /\ inflight' = inflight \cup { Flight(ProbeCall("acquire", WorktreePath)) }
  /\ calls' = Append(calls, ProbeCall("acquire", WorktreePath))
  /\ UNCHANGED << inputVars, fnVars, topVars, histVars, outcome, interruptPending, interruptedAt, finalizer,
                  releaseRuns, prefetchVars, targetVars, returned, wtExists,
                  savedState, cleanupVars >>

AcquireProbeReturn ==
  /\ pc = "acq_probe"
  /\ \E x \in Finished("probe", "acquire") :
       LET next == IF removeWorktreeRemoves(worktreeExists(x.res, WorktreePath))
                     THEN RemoveCall("acquire", WorktreePath) ELSE FetchCall
       IN /\ pc' = IF next.cmd = "remove" THEN "acq_remove" ELSE "acq_fetch"
          /\ inflight' = (inflight \ {x}) \cup { Flight(next) }
          /\ calls' = Append(calls, next)
  /\ UNCHANGED << inputVars, fnVars, topVars, histVars, outcome, interruptPending, interruptedAt, finalizer,
                  releaseRuns, prefetchVars, targetVars, returned, wtExists,
                  savedState, cleanupVars >>

\* mutant: the exit status of the force-remove checked and not ignored
removeWorktreeChecked(res) ==
  IF res.exit = 0 THEN NoError
  ELSE Err("GitWorktreeError", NoRef, "worktree", "", "Failed to execute git worktree remove")

\* removeWorktree's force-remove: execGit(args, true) ignores the exit status
\* and Effect.ignore swallows what is left, so there is never an error
removeWorktreeIgnored(res) == NoError

\* the pre-cleanup's result is ignored (Effect.ignore): fetch comes next
AcquireRemoveReturn ==
  /\ pc = "acq_remove"
  /\ \E x \in Finished("remove", "acquire") :
       LET e == removeWorktreeIgnored(x.res) IN
       IF e.tag = "none"
         THEN /\ pc' = "acq_fetch"
              /\ inflight' = (inflight \ {x}) \cup { Flight(FetchCall) }
              /\ calls' = Append(calls, FetchCall)
              /\ UNCHANGED outcome
         ELSE /\ pc' = "closing"
              /\ inflight' = inflight \ {x}
              /\ UNCHANGED calls
              /\ outcome' = ExitOf("failure", e)
  /\ UNCHANGED << inputVars, fnVars, topVars, histVars, interruptPending, interruptedAt, finalizer,
                  releaseRuns, prefetchVars, targetVars, returned, wtExists,
                  savedState, cleanupVars >>

FetchReturn ==
  /\ pc = "acq_fetch"
  /\ \E x \in Finished("fetch", "acquire") :
       LET e == fetchRef(x.res) IN
       IF e.tag = "none"
         THEN /\ pc' = "acq_add"
              /\ inflight' = (inflight \ {x}) \cup { Flight(AddCall) }
              /\ calls' = Append(calls, AddCall)
              /\ UNCHANGED outcome
         ELSE /\ pc' = "closing"
              /\ inflight' = inflight \ {x}
              /\ UNCHANGED calls
              /\ outcome' = ExitOf("failure", e)
  /\ UNCHANGED << inputVars, fnVars, topVars, histVars, interruptPending, interruptedAt, finalizer,
                  releaseRuns, prefetchVars, targetVars, returned, wtExists,
                  savedState, cleanupVars >>

\* addWorktree, then core.saveState("worktreePath", worktreePath); the acquire
\* is uninterruptible, so a pending interruption takes effect only here.
AddWorktreeReturn ==
  /\ pc = "acq_add"
  /\ \E x \in Finished("add", "acquire") :
       LET e == addWorktree(x.res) IN
       /\ inflight' = inflight \ {x}
       /\ UNCHANGED calls
       /\ finalizer' = acquireReleaseRegisters(e)
       /\ IF e.tag = "none"
            THEN /\ savedState' = WorktreePath
                 /\ IF interruptPending
                      THEN pc' = "closing" /\ outcome' = ExitOf("interrupted", NoError)
                      ELSE pc' = "prefetch" /\ UNCHANGED outcome
            ELSE /\ pc' = "closing"
                 /\ outcome' = ExitOf("failure", e)
                 /\ UNCHANGED savedState
  /\ UNCHANGED << inputVars, fnVars, topVars, histVars, interruptPending, interruptedAt, releaseRuns,
                  prefetchVars, targetVars, returned, wtExists, cleanupVars >>

\* ------------------------------------------------- services/nix.ts
\* mutant: orElseSucceed left out, a rejected exec fails the effect
execPrefetchRejects(res) == [failed |-> res.exit = -1, exitCode |-> res.exit]

\* execPrefetch: ignoreReturnCode, and a rejected exec is turned into exit
\* code 1 by orElseSucceed: the effect never fails.
execPrefetch(res) ==
  [failed |-> FALSE, exitCode |-> IF res.exit = -1 THEN 1 ELSE res.exit]

\* String.prototype.trim on the outputs the commands of the model write
trim(str) ==
  CASE str = "\n" -> ""
    [] str = "/nix/store/aaa\n" -> "/nix/store/aaa"
    [] str = "/nix/store/bbb\n" -> "/nix/store/bbb"
    [] str = "DIFF\n" -> "DIFF"
    [] str = "warning\n" -> "warning"
    [] str = "build failed\n" -> "build failed"
    [] str = "no such attribute\n" -> "no such attribute"
    [] str = "dix crashed\n" -> "dix crashed"
    [] OTHER -> str

\* execNix: a rejected exec becomes exit code -1; stdout and stderr are trimmed.
execNix(res) == [exitCode |-> res.exit, stdout |-> trim(res.out), stderr |-> trim(res.err)]

OrElse(s, dflt) == IF s = "" THEN dflt ELSE s

\* mutant: the exit status of the realization not looked at
getNixPathBuildUnchecked(flakeRef, r) == NoError

\* getNixPath, the realization step (build mode only)
getNixPathBuild(flakeRef, r) ==
  IF r.exitCode # 0
    THEN Err("NixBuildError", flakeRef, "", "", OrElse(r.stderr, "unknown error"))
    ELSE NoError

\* mutant: the check for empty output left out
getNixPathQueryNoEmptyCheck(flakeRef, r) ==
  IF r.exitCode # 0
    THEN Err("NixPathInfoError", flakeRef, "", "", OrElse(r.stderr, "unknown error"))
    ELSE NoError

\* getNixPath, the path query
getNixPathQuery(flakeRef, r) ==
  IF r.exitCode # 0
    THEN Err("NixPathInfoError", flakeRef, "", "", OrElse(r.stderr, "unknown error"))
    ELSE IF r.stdout = ""
      THEN Err("NixPathInfoError", flakeRef, "", "", "nix path-info returned empty output")
      ELSE NoError

\* mutant: output on stderr taken for a failure
getDixDiffFailsOnStderr(basePath, prPath, r) ==
  IF r.exitCode # 0 \/ r.stderr # ""
    THEN Err("NixDixError", NoRef, basePath, prPath,
             OrElse(r.stderr, "dix failed with no error message"))
    ELSE NoError

\* getDixDiff
getDixDiff(basePath, prPath, r) ==
  IF r.exitCode # 0
    THEN Err("NixDixError", NoRef, basePath, prPath,
             OrElse(r.stderr, "dix failed with no error message"))
    ELSE NoError

\* ------------------------------------------------- programs/full.ts
RootRef(side) ==
  IF side = "base" THEN baseFlakeRef(WorktreePath, relativePath(Cwd, directory))
                   ELSE prFlakeRef(directory)

\* mutant: the head directory reused as the diff tool's resolution context
dixInputsFromPathHead(worktreePath, prRoot) == prRoot

\* processNixOutput passes worktreePath as getDixDiff's inputsFromPath.
dixInputsFromPath(worktreePath, prRoot) == worktreePath

PrefetchCall(side) == Call("prefetch", 0, side, "pipeline", RootRef(side), "", "")
BuildCall(i, side) ==
  Call("build", i, side, "pipeline", WithAttr(RootRef(side), attributes[i].attribute),
       "--no-link", "")
PathInfoCall(i, side) ==
  Call("pathinfo", i, side, "pipeline", WithAttr(RootRef(side), attributes[i].attribute),
       IF build THEN "" ELSE "--derivation", "")
DixCall(i) ==
  Call("dix", i, "none", "pipeline",
       FlakeRef("path", dixInputsFromPath(WorktreePath, directory), "", ""),
       paths[i].base, paths[i].head)

\* mutant: the branch name and the live directory in place of the commit SHAs
DiffResultWithRefs(config, diff) ==
  [displayName |-> config.displayName, attributePath |-> config.attribute,
   baseRef |-> BaseRefName, prRef |-> directory, diff |-> diff]

\* processNixOutput's return value
DiffResult(config, diff) ==
  [displayName |-> config.displayName, attributePath |-> config.attribute,
   baseRef |-> BaseSha, prRef |-> HeadSha, diff |-> diff]

\* mutant: targets without differences dropped from the result list
forEachCollectNonEmpty(acc, r) == IF r.diff = "" THEN acc ELSE Append(acc, r)

\* Effect.forEach collects one result per element, in element order.
forEachCollect(acc, r) == Append(acc, r)

\* mutant: Effect.forEach given concurrency "unbounded"
forEachCanStartUnbounded(i, tp) == TRUE

\* Effect.forEach without a concurrency option is sequential: element i starts
\* when every element before it has finished.
forEachCanStart(i, tp) == \A j \in 1..(i - 1) : tp[j].dix = "ok"

\* mutant: Effect.all given a concurrency option, both resolutions forked
allCanStartConcurrent(side, prog) == TRUE

\* mutant: the two resolutions run in the other order, head first
allCanStartHeadFirst(side, prog) == side = "head" \/ prog.head = "ok"

\* Effect.all({basePath, prPath}) without a concurrency option is sequential:
\* prPath's effect starts when basePath's has succeeded.
allCanStart(side, prog) == side = "base" \/ prog.base = "ok"

\* mutant: a target's failure swallowed, the loop carries on with the next target
FailPipelineSkipTarget(x, e, tp) ==
  /\ tprog' = IF x.call.target = 0 THEN tp ELSE [tp EXCEPT ![x.call.target].dix = "ok"]
  /\ inflight' = inflight \ {x}
  /\ UNCHANGED << pc, outcome, calls >>

\* mutant: a failed command issued again (Effect.retry around the step)
FailPipelineRetry(x, e, tp) ==
  /\ inflight' = (inflight \ {x}) \cup { Flight(x.call) }
  /\ calls' = Append(calls, x.call)
  /\ UNCHANGED << pc, outcome, tprog >>

\* A failed step fails the fiber (tp: the progress with the failed step marked):
\* what the fiber had in flight is abandoned, nothing further is issued.
FailPipeline(x, e, tp) ==
  /\ pc' = "closing"
  /\ outcome' = ExitOf("failure", e)
  /\ tprog' = tp
  /\ inflight' = { y \in inflight : y.call.by # "pipeline" }
  /\ UNCHANGED calls

\* mutant: the message logged for every failed prefetch, the Ref not consulted
prefetchLogsAlways(exitCode, alreadyLogged) == exitCode # 0

\* prefetchFlakeInputs logs when the exit code is non-zero and the Ref
\* prefetchLogged is still false.
prefetchLogs(exitCode, alreadyLogged) == exitCode # 0 /\ ~alreadyLogged

\* mutant: Effect.all without the concurrency option, head after base
prefetchCanStartSequential(side, pf) == side = "base" \/ pf["base"] = "done"

\* Effect.all([...], {concurrency: 2}): neither prefetch waits for the other
prefetchCanStart(side, pf) == TRUE

\* Effect.all([prefetch(base), prefetch(head)], {concurrency: 2})
PrefetchStart(side) ==
  /\ pc = "prefetch"
  /\ prefetch[side] = "todo"
  /\ prefetchCanStart(side, prefetch)
  /\ prefetch' = [prefetch EXCEPT ![side] = "run"]
  /\ inflight' = inflight \cup { Flight(PrefetchCall(side)) }
  /\ calls' = Append(calls, PrefetchCall(side))
  /\ UNCHANGED << inputVars, fnVars, topVars, histVars, pc, outcome, interruptPending, interruptedAt, finalizer,
                  releaseRuns, prefetchLogged, logCount, prefetchFailed, targetVars,
                  returned, wtExists, savedState, cleanupVars >>

PrefetchReturn(side) ==
  /\ pc = "prefetch"
  /\ \E x \in Finished("prefetch", "pipeline") :
       /\ x.call.side = side
       /\ LET r == execPrefetch(x.res)
              pf == [prefetch EXCEPT ![side] = "done"]
              log == prefetchLogs(r.exitCode, prefetchLogged)
          IN IF r.failed
               THEN /\ FailPipeline(x, Err("UnknownException", NoRef, "", "", "prefetch failed"),
                                    tprog)
                    /\ UNCHANGED << prefetchVars >>
               ELSE /\ prefetch' = pf
                    /\ prefetchLogged' = (prefetchLogged \/ log)
                    /\ logCount' = IF log THEN logCount + 1 ELSE logCount
                    /\ prefetchFailed' = IF r.exitCode # 0 THEN prefetchFailed + 1
                                                           ELSE prefetchFailed
                    /\ inflight' = inflight \ {x}
                    /\ UNCHANGED << calls, tprog >>
                    /\ IF \A s \in Sides : pf[s] = "done"
                         THEN IF N = 0
                                THEN pc' = "closing" /\ outcome' = ExitOf("success", NoError)
                                ELSE pc' = "targets" /\ UNCHANGED outcome
                         ELSE UNCHANGED << pc, outcome >>
  /\ UNCHANGED << inputVars, fnVars, topVars, histVars, interruptPending, interruptedAt, finalizer,
                  releaseRuns, paths, results, returned, wtExists, savedState,
                  cleanupVars >>

\* mutant: the realization run whatever the build option
getNixPathBuildsAlways(b) == TRUE

\* getNixPath: `if (build)` guards the realization
getNixPathBuilds(b) == b

\* getNixPath(`${flakeRef}#${attribute}`, build): first command
ResolveStart(i, side) ==
  /\ pc = "targets"
  /\ forEachCanStart(i, tprog)
  /\ allCanStart(side, tprog[i])
  /\ tprog[i][side] = "todo"
  /\ LET c == IF getNixPathBuilds(build) THEN BuildCall(i, side) ELSE PathInfoCall(i, side) IN
       /\ tprog' = [tprog EXCEPT ![i][side] =
                      IF getNixPathBuilds(build) THEN "building" ELSE "querying"]
       /\ inflight' = inflight \cup { Flight(c) }
       /\ calls' = Append(calls, c)
  /\ UNCHANGED << inputVars, fnVars, topVars, histVars, pc, outcome, interruptPending, interruptedAt, finalizer,
                  releaseRuns, prefetchVars, paths, results, returned, wtExists,
                  savedState, cleanupVars >>

BuildReturn(i, side) ==
  /\ pc = "targets"
  /\ tprog[i][side] = "building"
  /\ \E x \in Finished("build", "pipeline") :
       /\ x.call.target = i /\ x.call.side = side
       /\ LET e == getNixPathBuild(x.call.ref, execNix(x.res)) IN
          IF e.tag # "none"
            THEN FailPipeline(x, e, [tprog EXCEPT ![i][side] = "failed"])
            ELSE /\ tprog' = [tprog EXCEPT ![i][side] = "querying"]
                 /\ inflight' = (inflight \ {x}) \cup { Flight(PathInfoCall(i, side)) }
                 /\ calls' = Append(calls, PathInfoCall(i, side))
                 /\ UNCHANGED << pc, outcome >>
  /\ UNCHANGED << inputVars, fnVars, topVars, histVars, interruptPending, interruptedAt, finalizer,
                  releaseRuns, prefetchVars, paths, results, returned, wtExists,
                  savedState, cleanupVars >>

PathInfoReturn(i, side) ==
  /\ pc = "targets"
  /\ tprog[i][side] = "querying"
  /\ \E x \in Finished("pathinfo", "pipeline") :
       /\ x.call.target = i /\ x.call.side = side
       /\ LET r == execNix(x.res)
              e == getNixPathQuery(x.call.ref, r) IN
          IF e.tag # "none"
            THEN FailPipeline(x, e, [tprog EXCEPT ![i][side] = "failed"]) /\ UNCHANGED paths
            ELSE /\ tprog' = [tprog EXCEPT ![i][side] = "ok"]
                 /\ paths' = [paths EXCEPT ![i][side] = r.stdout]
                 /\ inflight' = inflight \ {x}
                 /\ UNCHANGED << calls, pc, outcome >>
  /\ UNCHANGED << inputVars, fnVars, topVars, histVars, interruptPending, interruptedAt, finalizer,
                  releaseRuns, prefetchVars, results, returned, wtExists, savedState,
                  cleanupVars >>

\* nix.getDixDiff(basePath, prPath, worktreePath), after both paths are there
DixStart(i) ==
  /\ pc = "targets"
  /\ tprog[i].base = "ok" /\ tprog[i].head = "ok" /\ tprog[i].dix = "todo"
  /\ tprog' = [tprog EXCEPT ![i].dix = "running"]
  /\ inflight' = inflight \cup { Flight(DixCall(i)) }
  /\ calls' = Append(calls, DixCall(i))
  /\ UNCHANGED << inputVars, fnVars, topVars, histVars, pc, outcome, interruptPending, interruptedAt, finalizer,
                  releaseRuns, prefetchVars, paths, results, returned, wtExists,
                  savedState, cleanupVars >>

DixReturn(i) ==
  /\ pc = "targets"
  /\ tprog[i].dix = "running"
  /\ \E x \in Finished("dix", "pipeline") :
       /\ x.call.target = i
       /\ LET r == execNix(x.res)
              e == getDixDiff(x.call.p1, x.call.p2, r)
              tp == [tprog EXCEPT ![i].dix = "ok"] IN
          IF e.tag # "none"
            THEN FailPipeline(x, e, [tprog EXCEPT ![i].dix = "failed"]) /\ UNCHANGED results
            ELSE /\ tprog' = tp
                 /\ results' = forEachCollect(results, DiffResult(attributes[i], r.stdout))
                 /\ inflight' = inflight \ {x}
                 /\ UNCHANGED calls
                 /\ IF \A j \in 1..N : tp[j].dix = "ok"
                      THEN pc' = "closing" /\ outcome' = ExitOf("success", NoError)
                      ELSE UNCHANGED << pc, outcome >>
  /\ UNCHANGED << inputVars, fnVars, topVars, histVars, interruptPending, interruptedAt, finalizer,
                  releaseRuns, prefetchVars, paths, returned, wtExists, savedState,
                  cleanupVars >>

\* ------------------------------------------------- programs/shared.ts
\* mutant: the release tied to the success path only
scopedRunsFinalizersOnSuccess(kind) == kind = "success"

\* mutant: the release skipped when the fiber is interrupted
scopedRunsFinalizersUnlessInterrupted(kind) == kind \in {"success", "failure"}

\* Effect.scoped closes the scope, and runs its finalizers, however the scoped
\* effect exits: success, failure or interruption.
scopedRunsFinalizers(kind) == kind \in {"success", "failure", "interrupted"}

\* runDiffPipeline returns the results only when the scoped effect succeeded;
\* otherwise the scoped effect's exit is the exit of the program.
Finish ==
  /\ returned' = IF outcome.kind = "success"
                   THEN [ok |-> TRUE, val |-> results] ELSE returned
  /\ IF outcome.kind = "success"
       THEN pc' = "post" /\ UNCHANGED top
       ELSE RunEnd(outcome.kind, outcome.error)

\* The scope closes: the registered release runs, removeWorktree(worktree.path).
ScopeClose ==
  /\ pc = "closing"
  /\ IF finalizer /\ scopedRunsFinalizers(outcome.kind)
       THEN /\ pc' = "rel_probe"
            /\ releaseRuns' = releaseRuns + 1
            /\ inflight' = inflight \cup { Flight(ProbeCall("release", WorktreePath)) }
            /\ calls' = Append(calls, ProbeCall("release", WorktreePath))
            /\ UNCHANGED << returned, top >>
       ELSE /\ Finish
            /\ UNCHANGED << releaseRuns, inflight, calls >>
  /\ UNCHANGED << inputVars, fnVars, output, histVars, outcome, interruptPending, interruptedAt, finalizer,
                  prefetchVars, targetVars, wtExists, savedState, cleanupVars >>

ReleaseProbeReturn ==
  /\ pc = "rel_probe"
  /\ \E x \in Finished("probe", "release") :
       /\ seen' = [seen EXCEPT !.release = Append(@, Seen(x))]
       /\ IF removeWorktreeRemoves(worktreeExists(x.res, x.call.p1))
            THEN /\ pc' = "rel_remove"
                 /\ inflight' = (inflight \ {x}) \cup { Flight(RemoveCall("release", x.call.p1)) }
                 /\ calls' = Append(calls, RemoveCall("release", x.call.p1))
                 /\ UNCHANGED << returned, top >>
            ELSE /\ Finish
                 /\ inflight' = inflight \ {x}
                 /\ UNCHANGED calls
  /\ UNCHANGED << inputVars, fnVars, output, wtCreated, outcome, interruptPending, interruptedAt,
                  finalizer, releaseRuns, prefetchVars, targetVars, wtExists,
                  savedState, cleanupVars >>

\* the force-remove's result is ignored (ignoreReturnCode, Effect.ignore)
ReleaseRemoveReturn ==
  /\ pc = "rel_remove"
  /\ \E x \in Finished("remove", "release") :
       /\ seen' = [seen EXCEPT !.release = Append(@, Seen(x))]
       /\ Finish
       /\ inflight' = inflight \ {x}
       /\ UNCHANGED calls
  /\ UNCHANGED << inputVars, fnVars, output, wtCreated, outcome, interruptPending, interruptedAt,
                  finalizer, releaseRuns, prefetchVars, targetVars, wtExists,
                  savedState, cleanupVars >>

\* ------------------------------------------------- runFull / runDiff / runComment
\* JSON.stringify of a string: quoted, with the quote, the backslash and the
\* line break escaped
RECURSIVE JSONescape(_)
JSONescape(str) ==
  IF str = "" THEN ""
  ELSE LET c == SubSeq(str, 1, 1)
       IN (CASE c = "\"" -> "\\\""
             [] c = "\\" -> "\\\\"
             [] c = "\n" -> "\\n"
             [] OTHER -> c)
          \o JSONescape(SubSeq(str, 2, Len(str)))

\* JSON.stringify of an array of objects whose values are strings; an object
\* is given as the sequence of its << key, value >> pairs
RECURSIVE JSONstringify(_)
JSONstringify(objects) ==
  LET Member(pair) == "\"" \o JSONescape(pair[1]) \o "\":\"" \o JSONescape(pair[2]) \o "\""
      Members(pairs) ==
        IF Len(pairs) = 1 THEN Member(pairs[1])
        ELSE Member(pairs[1]) \o "," \o Member(pairs[2])
      Object(pairs) == "{" \o Members(pairs) \o "}"
      Rest(text) == SubSeq(text, 2, Len(text))
  IN IF Len(objects) = 0 THEN "[]"
     ELSE IF Len(objects) = 1 THEN "[" \o Object(objects[1]) \o "]"
     ELSE "[" \o Object(objects[1]) \o "," \o Rest(JSONstringify(Tail(objects)))

\* mutant: the results serialized as they are, every field of a DiffResult
setDiffOutputWholeResults(out, res) ==
  IF Len(res) > 0
    THEN [set |-> TRUE,
          val |-> JSONstringify([k \in 1..Len(res) |->
                    << << "displayName", res[k].displayName >>,
                       << "attributePath", res[k].attributePath >> >>])]
    ELSE out

\* setDiffOutput: the output is set only for a non-empty result list
setDiffOutput(out, res) ==
  IF Len(res) > 0
    THEN [set |-> TRUE,
          val |-> JSONstringify([k \in 1..Len(res) |->
                    << << "displayName", res[k].displayName >>,
                       << "diff", res[k].diff >> >>])]
    ELSE out

\* artifactService.uploadDiffResults / the download of the results' artifacts
artifactResult(res, name) ==
  IF res.exit = 0 THEN NoError
  ELSE Err("ArtifactError", NoRef, name, "", res.err)

\* githubService.postAggregatedComment
postAggregatedComment(res) ==
  IF res.exit = 0 THEN NoError
  ELSE Err("GitHubApiError", NoRef, "postComment", "", res.err)

\* mutant: runFull sets the output before the upload, as runDiff does
runFullSetsOutputFirstAsRunDiff == TRUE

\* runFull: setDiffOutput(results) is its last statement, after postComment
runFullSetsOutputFirst == FALSE

\* After runDiffPipeline has returned.  runFull: uploadDiffResults(results,
\* "full").  runDiff: setDiffOutput(results), then uploadDiffResults(results,
\* config.attributes[0].displayName), which throws on an empty attribute list.
PostStart ==
  /\ pc = "post"
  /\ IF mode = "full"
       THEN /\ pc' = "upload"
            /\ inflight' = inflight \cup { Flight(UploadCall("full")) }
            /\ calls' = Append(calls, UploadCall("full"))
            /\ output' = IF runFullSetsOutputFirst THEN setDiffOutput(output, returned.val)
                                                   ELSE output
            /\ UNCHANGED top
       ELSE /\ output' = setDiffOutput(output, returned.val)
            /\ IF N = 0
                 THEN RunEnd("defect", NoError) /\ UNCHANGED << inflight, calls >>
                 ELSE /\ pc' = "upload"
                      /\ inflight' = inflight \cup { Flight(UploadCall(attributes[1].displayName)) }
                      /\ calls' = Append(calls, UploadCall(attributes[1].displayName))
                      /\ UNCHANGED top
  /\ UNCHANGED << inputVars, fnVars, histVars, outcome, interruptPending, interruptedAt, finalizer,
                  releaseRuns, prefetchVars, targetVars, returned, wtExists, savedState,
                  cleanupVars >>

\* runFull goes on to postComment; runDiff is over
UploadReturn ==
  /\ pc = "upload"
  /\ \E x \in Finished("upload", "post") :
       LET e == artifactResult(x.res, x.call.p1) IN
       IF e.tag # "none"
         THEN /\ RunEnd("failure", e)
              /\ inflight' = inflight \ {x}
              /\ UNCHANGED calls
         ELSE IF mode = "full"
           THEN /\ pc' = "comment"
                /\ inflight' = (inflight \ {x}) \cup { Flight(CommentCall) }
                /\ calls' = Append(calls, CommentCall)
                /\ UNCHANGED top
           ELSE /\ RunEnd("success", NoError)
                /\ inflight' = inflight \ {x}
                /\ UNCHANGED calls
  /\ UNCHANGED << inputVars, fnVars, output, histVars, outcome, interruptPending, interruptedAt,
                  finalizer, releaseRuns, prefetchVars, targetVars, returned, wtExists,
                  savedState, cleanupVars >>

\* runComment: the results come from the artifacts of the diff-only runs
DownloadReturn ==
  /\ pc = "download"
  /\ \E x \in Finished("download", "post") :
       LET e == artifactResult(x.res, "diff-results") IN
       IF e.tag # "none"
         THEN /\ RunEnd("failure", e)
              /\ inflight' = inflight \ {x}
              /\ UNCHANGED calls
         ELSE /\ pc' = "comment"
              /\ inflight' = (inflight \ {x}) \cup { Flight(CommentCall) }
              /\ calls' = Append(calls, CommentCall)
              /\ UNCHANGED top
  /\ UNCHANGED << inputVars, fnVars, output, histVars, outcome, interruptPending, interruptedAt,
                  finalizer, releaseRuns, prefetchVars, targetVars, returned, wtExists,
                  savedState, cleanupVars >>

\* postComment; in runFull setDiffOutput(results) follows
CommentReturn ==
  /\ pc = "comment"
  /\ \E x \in Finished("comment", "post") :
       LET e == postAggregatedComment(x.res) IN
       /\ inflight' = inflight \ {x}
       /\ UNCHANGED calls
       /\ IF e.tag # "none"
            THEN RunEnd("failure", e) /\ UNCHANGED output
            ELSE /\ RunEnd("success", NoError)
                 /\ output' = IF mode = "full" THEN setDiffOutput(output, returned.val)
                                               ELSE output
  /\ UNCHANGED << inputVars, fnVars, histVars, outcome, interruptPending, interruptedAt, finalizer,
                  releaseRuns, prefetchVars, targetVars, returned, wtExists, savedState,
                  cleanupVars >>

\* ------------------------------------------------- interruption and kill
AcquirePcs == {"acq_probe", "acq_remove", "acq_fetch", "acq_add"}

PhaseOf ==
  CASE pc = "start" -> "start"
    [] pc = "prefetch" -> "prefetch"
    [] pc = "targets" ->
         IF \E x \in inflight : x.call.cmd = "dix" THEN "dix" ELSE "resolve"
    [] OTHER -> "acquire"

\* The fiber running the pipeline is interrupted.  Inside acquireRelease's
\* acquire the interruption is deferred to the end of the acquire; elsewhere
\* the fiber stops waiting for what it had issued and its scope closes.
Interrupt ==
  /\ pc \in {"start", "prefetch", "targets"} \cup AcquirePcs
  /\ ~interruptPending
  /\ interruptedAt' = PhaseOf
  /\ IF pc \in AcquirePcs
       THEN /\ interruptPending' = TRUE
            /\ UNCHANGED << pc, outcome, inflight >>
       ELSE /\ pc' = "closing"
            /\ outcome' = ExitOf("interrupted", NoError)
            /\ inflight' = {}
            /\ UNCHANGED interruptPending
  /\ UNCHANGED << inputVars, fnVars, topVars, histVars, finalizer, releaseRuns, prefetchVars, targetVars,
                  returned, calls, wtExists, savedState, cleanupVars >>

\* The host kills the process of the main run (timeout, cancellation): nothing
\* of the process runs any more, and what it had issued dies with it.
Kill ==
  /\ pc \notin {"done", "killed"}
  /\ pc' = "killed"
  /\ outcome' = ExitOf("killed", NoError)
  /\ inflight' = {}
  /\ UNCHANGED << inputVars, fnVars, topVars, histVars, interruptPending, interruptedAt, finalizer, releaseRuns,
                  prefetchVars, targetVars, returned, calls, wtExists, savedState,
                  cleanupVars >>

\* ------------------------------------------------- cleanup.js (post step)
MainEnded == pc \in {"done", "killed"}

\* mutant: removeWorktree called whatever the state holds
cleanupSkipsNever(worktreePath) == FALSE

\* cleanup: `if (!worktreePath)` returns before removeWorktree
cleanupSkips(worktreePath) == worktreePath = ""

\* cleanup: core.getState("worktreePath"); nothing saved, nothing to do
CleanupBegin ==
  /\ MainEnded
  /\ cpc = "idle"
  /\ cleanupPath' = savedState
  /\ IF cleanupSkips(savedState)
       THEN /\ cpc' = "done"
            /\ UNCHANGED << inflight, calls >>
       ELSE /\ cpc' = "probe"
            /\ inflight' = inflight \cup { Flight(ProbeCall("cleanup", savedState)) }
            /\ calls' = Append(calls, ProbeCall("cleanup", savedState))
  /\ UNCHANGED << inputVars, fnVars, topVars, histVars, pc, outcome, interruptPending, interruptedAt, finalizer,
                  releaseRuns, prefetchVars, targetVars, returned, wtExists, savedState >>

CleanupProbeReturn ==
  /\ cpc = "probe"
  /\ \E x \in Finished("probe", "cleanup") :
       /\ seen' = [seen EXCEPT !.cleanup = Append(@, Seen(x))]
       /\ IF removeWorktreeRemoves(worktreeExists(x.res, x.call.p1))
            THEN /\ cpc' = "remove"
                 /\ inflight' = (inflight \ {x}) \cup { Flight(RemoveCall("cleanup", x.call.p1)) }
                 /\ calls' = Append(calls, RemoveCall("cleanup", x.call.p1))
            ELSE /\ cpc' = "done"
                 /\ inflight' = inflight \ {x}
                 /\ UNCHANGED calls
  /\ UNCHANGED << inputVars, fnVars, topVars, wtCreated, pc, outcome, interruptPending, interruptedAt,
                  finalizer, releaseRuns, prefetchVars, targetVars, returned, wtExists,
                  savedState, cleanupPath >>

CleanupRemoveReturn ==
  /\ cpc = "remove"
  /\ \E x \in Finished("remove", "cleanup") :
       /\ seen' = [seen EXCEPT !.cleanup = Append(@, Seen(x))]
       /\ cpc' = "done"
       /\ inflight' = inflight \ {x}
       /\ UNCHANGED calls
  /\ UNCHANGED << inputVars, fnVars, topVars, wtCreated, pc, outcome, interruptPending, interruptedAt,
                  finalizer, releaseRuns, prefetchVars, targetVars, returned, wtExists,
                  savedState, cleanupPath >>

\* ------------------------------------------------- specification
Next ==
  \/ ExternalFinish
  \/ ProgramStart
  \/ CreateWorktreeBegin
  \/ AcquireProbeReturn
  \/ AcquireRemoveReturn
  \/ FetchReturn
  \/ AddWorktreeReturn
  \/ \E s \in Sides : PrefetchStart(s)
  \/ \E s \in Sides : PrefetchReturn(s)
  \/ \E i \in 1..N, s \in Sides : ResolveStart(i, s)
  \/ \E i \in 1..N, s \in Sides : BuildReturn(i, s)
  \/ \E i \in 1..N, s \in Sides : PathInfoReturn(i, s)
  \/ \E i \in 1..N : DixStart(i)
  \/ \E i \in 1..N : DixReturn(i)
  \/ ScopeClose
  \/ ReleaseProbeReturn
  \/ ReleaseRemoveReturn
  \/ PostStart
  \/ UploadReturn
  \/ DownloadReturn
  \/ CommentReturn
  \/ Interrupt
  \/ Kill
  \/ CleanupBegin
  \/ CleanupProbeReturn
  \/ CleanupRemoveReturn

Spec == Init /\ [][Next]_vars

\* ------------------------------------------------- texts
\* A text is a sequence of pieces, a piece the string s repeated n times.
Lit(str) == [s |-> str, n |-> 1]
Rep(str, n) == [s |-> str, n |-> n]

PieceLength(p) == Len(p.s) * p.n

\* String.prototype.length
RECURSIVE Length(_)
Length(text) ==
  IF Len(text) = 0 THEN 0
  ELSE IF Len(text) = 1 THEN PieceLength(text[1])
  ELSE LET h == Len(text) \div 2
       IN Length(SubSeq(text, 1, h)) + Length(SubSeq(text, h + 1, Len(text)))

\* String.prototype.slice(0, k)
RECURSIVE Take(_, _)
Take(text, k) ==
  IF k <= 0 \/ Len(text) = 0 THEN << >>
  ELSE LET p == Head(text)
           w == Len(p.s)
       IN IF PieceLength(p) <= k
            THEN << p >> \o Take(Tail(text), k - PieceLength(p))
            ELSE (IF k \div w > 0 THEN << Rep(p.s, k \div w) >> ELSE << >>)
                 \o (IF k % w > 0 THEN << Lit(SubSeq(p.s, 1, k % w)) >> ELSE << >>)

\* Array.prototype.join("") of texts
RECURSIVE Concat(_)
Concat(texts) ==
  IF Len(texts) = 0 THEN << >>
  ELSE IF Len(texts) = 1 THEN texts[1]
  ELSE LET h == Len(texts) \div 2
       IN Concat(SubSeq(texts, 1, h)) \o Concat(SubSeq(texts, h + 1, Len(texts)))

\* ------------------------------------------------- report aggregator
\* the budget of the diff bodies of a report, and the comment-size ceiling
MaxDiffLength == 60000
MaxCommentLength == 65536

\* truncateDiff with the limit itself already cut
truncateDiffAtLimit(diff, maxLength) ==
  IF Length(diff) >= maxLength
    THEN [text |-> Take(diff, maxLength)
                   \o << Lit("... (truncated, "), Lit(ToString(Length(diff))),
                         Lit(" chars total)") >>,
          truncated |-> TRUE]
    ELSE [text |-> diff, truncated |-> FALSE]

\* truncateDiff(diff, maxLength): { text, truncated }
truncateDiff(diff, maxLength) ==
  IF Length(diff) > maxLength
    THEN [text |-> Take(diff, maxLength)
                   \o << Lit("... (truncated, "), Lit(ToString(Length(diff))),
                         Lit(" chars total)") >>,
          truncated |-> TRUE]
    ELSE [text |-> diff, truncated |-> FALSE]

\* the budget left undivided: every result may take all of it
perResultBudgetWhole(count) == MaxDiffLength

\* the budget is divided equally over the results
perResultBudget(count) == MaxDiffLength \div count

\* the diff bodies of a report, each truncated to the budget of a result
truncatedBodies(res) ==
  [k \in DOMAIN res |-> truncateDiff(res[k].diff, perResultBudget(Len(res)))]

\* checkIfAnyDiffTruncated(results)
checkIfAnyDiffTruncated(res) == \E k \in DOMAIN res : truncatedBodies(res)[k].truncated

\* the section of one result: its label and its (possibly truncated) diff
resultSection(r, budget) ==
  << Lit("<details>"), Lit("<summary>") >> \o r.displayName \o << Lit("</summary>") >>
  \o (IF Length(r.diff) = 0 THEN << Lit("No differences found") >>
                            ELSE truncateDiff(r.diff, budget).text)
  \o << Lit("</details>") >>

\* the marker of the first result whenever there is a result
reportMarkerOfFirst(res) ==
  IF Len(res) >= 1
    THEN << Lit("<!-- nix-diff-action:") >> \o res[1].displayName \o << Lit(" -->") >>
    ELSE << Lit("<!-- nix-diff-action -->") >>

\* the marker comment that identifies the report: the result's own when there
\* is exactly one result, the generic one otherwise
reportMarker(res) ==
  IF Len(res) = 1
    THEN << Lit("<!-- nix-diff-action:") >> \o res[1].displayName \o << Lit(" -->") >>
    ELSE << Lit("<!-- nix-diff-action -->") >>

\* formatAggregatedComment(results, commitSha, options): the marker, the
\* sections, the link to the untruncated data, the footer.  Markup between
\* these pieces is left out: the text is at least this long.
formatAggregatedComment(res, commitSha, options) ==
  LET budget == IF Len(res) = 0 THEN MaxDiffLength ELSE perResultBudget(Len(res))
      anyTruncated == checkIfAnyDiffTruncated(res)
      marker == reportMarker(res)
      link == IF anyTruncated /\ options.runId # ""
                THEN << Lit("View full diff in artifacts"), Lit(options.repoUrl),
                        Lit("/actions/runs/"), Lit(options.runId) >>
                ELSE << >>
      footer == << Lit("<!-- nix-diff-action-footer sha="), Lit(commitSha), Lit(" -->"),
                   Lit("[nix-diff-action](https://github.com/natsukium/nix-diff-action)"),
                   Lit("[dix](https://github.com/faukah/dix)") >>
  IN marker \o << Lit("## Nix Diff") >>
     \o Concat([k \in DOMAIN res |-> resultSection(res[k], budget)])
     \o link \o footer

\* the lengths of the diffs, and the lists of results, a report is formatted from
DiffLengths == {0, 5, 200, 8571, 8572, 30000, 50000, 60000, 60001, 70000}
ResultCounts == {0, 1, 2, 5, 7, 300}

FormatResult(k, len) ==
  [displayName |-> << Lit("host"), Lit(ToString(k)) >>,
   diff |-> IF len = 0 THEN << >> ELSE << Rep("a", len) >>]

FormatResultLists ==
  { [k \in 1..n |-> FormatResult(k, len)] : n \in ResultCounts, len \in DiffLengths }
  \cup UNION { { [k \in 1..n |-> FormatResult(k, lens[k])] : lens \in [1..n -> DiffLengths] } :
               n \in 0..MaxResults }

FormatOptions ==
  { [runId |-> "", repoUrl |-> "https://github.com/owner/repo"],
    [runId |-> "12345", repoUrl |-> "https://github.com/owner/repo"] }

\* postComment's params: the run id of the host and the link wanted, or a
\* random run id (the host gave none) and no link wanted
PostCommentParams ==
  { [runId |-> "12345", showArtifactLinkWhenTruncated |-> TRUE],
    [runId |-> "12345", showArtifactLinkWhenTruncated |-> FALSE],
    [runId |-> "0b9e7d5c-uuid", showArtifactLinkWhenTruncated |-> FALSE] }

\* postComment's formatOptions with the run id always passed
formatOptionsAlways(res, params) ==
  [runId |-> params.runId, repoUrl |-> "https://github.com/owner/repo"]

\* postComment: the options it passes to the formatter
formatOptions(res, params) ==
  LET willTruncate == checkIfAnyDiffTruncated(res)
      shouldShowArtifactLink == willTruncate /\ params.showArtifactLinkWhenTruncated
  IN [runId |-> IF shouldShowArtifactLink THEN params.runId ELSE "",
      repoUrl |-> "https://github.com/owner/repo"]

InitFormat ==
  /\ fmtIn \in [results : FormatResultLists, options : FormatOptions, params : {NoParams}]
              \cup [results : FormatResultLists, options : {[runId |-> "", repoUrl |-> ""]},
                    params : PostCommentParams]
  /\ fmtOut = [done |-> FALSE, text |-> << >>, bodies |-> << >>,
               options |-> [runId |-> "", repoUrl |-> ""]]
  /\ NoUtil
  /\ attributes = << >>
  /\ build = FALSE
  /\ directory = Cwd
  /\ mode = "comment-only"
  /\ valid = [pr |-> TRUE, attributes |-> "ok", directory |-> TRUE,
              strategy |-> TRUE, config |-> TRUE]
  /\ wtExists = FALSE
  /\ RunIdle

Formatted(res, options) ==
  /\ ~fmtOut.done
  /\ fmtOut' = [done |-> TRUE,
                text |-> formatAggregatedComment(res, HeadSha, options),
                bodies |-> truncatedBodies(res),
                options |-> options]
  /\ UNCHANGED << inputVars, fmtIn, fnIn, fnOut, topVars, histVars, pc, outcome, interruptPending,
                  interruptedAt, finalizer, releaseRuns, prefetchVars, targetVars, returned,
                  inflight, calls, wtExists, savedState, cleanupVars >>

\* the formatter called with options of its caller's choice
FormatComment ==
  /\ fmtIn.params = NoParams
  /\ Formatted(fmtIn.results, fmtIn.options)

\* the formatter called by postComment
PostComment ==
  /\ fmtIn.params # NoParams
  /\ Formatted(fmtIn.results, formatOptions(fmtIn.results, fmtIn.params))

NextFormat ==
  \/ FormatComment
  \/ PostComment

SpecFormat == InitFormat /\ [][NextFormat]_vars

\* ------------------------------------------------- utility functions
\* no run and no report: only a utility function is applied
NoRun ==
  /\ NoFormat
  /\ attributes = << >>
  /\ build = FALSE
  /\ directory = Cwd
  /\ mode = "comment-only"
  /\ valid = [pr |-> TRUE, attributes |-> "ok", directory |-> TRUE,
              strategy |-> TRUE, config |-> TRUE]
  /\ wtExists = FALSE
  /\ RunIdle

\* ---- strings, character by character
Char(str, i) == SubSeq(str, i, i)

\* \s of a regular expression, and the characters . does not match
IsSpace(c) == c \in {" ", "\t", "\n", "\r", "\f"}
IsLineTerminator(c) == c \in {"\n", "\r"}

Max(S) == CHOOSE x \in S : \A y \in S : y <= x
Min(S) == CHOOSE x \in S : \A y \in S : x <= y

\* String.prototype.trim
trimString(str) ==
  LET kept == { i \in 1..Len(str) : ~IsSpace(Char(str, i)) }
  IN IF kept = {} THEN "" ELSE SubSeq(str, Min(kept), Max(kept))

\* the end of the longest run of \s from j on (the position after it)
SpaceEnd(str, j) ==
  Min({ q \in j..(Len(str) + 1) : q = Len(str) + 1 \/ ~IsSpace(Char(str, q)) })

\* \s*(.+)$ from j on: where the group starts, 0 when there is no match.
\* \s* is greedy and gives characters back until .+ finds a character to
\* start with; .+ then runs to the end of that line.
GroupStart(str, j) ==
  LET e == SpaceEnd(str, j)
      given == { q \in j..(e - 1) : ~IsLineTerminator(Char(str, q)) }
  IN IF e <= Len(str) THEN e
     ELSE IF given = {} THEN 0 ELSE Max(given)

\* diff.match(/^<marker>\s*(.+)$/m): the first match and its group.  With
\* the m flag ^ matches at the start of every line and $ at the end of one.
matchPathLine(diff, marker) ==
  LET LineStarts ==
        {1} \cup { i + 1 : i \in { k \in 1..Len(diff) : IsLineTerminator(Char(diff, k)) } }
      LineEnd(p) ==
        Min({ q \in p..(Len(diff) + 1) :
                q = Len(diff) + 1 \/ IsLineTerminator(Char(diff, q)) })
      starts == { i \in LineStarts :
                    /\ i + 2 <= Len(diff)
                    /\ SubSeq(diff, i, i + 2) = marker
                    /\ GroupStart(diff, i + 3) # 0 }
  IN IF starts = {} THEN [matched |-> FALSE, group |-> ""]
     ELSE LET g == GroupStart(diff, Min(starts) + 3)
          IN [matched |-> TRUE, group |-> SubSeq(diff, g, LineEnd(g) - 1)]

\* hasDixChanges(diff)
hasDixChanges(diff) ==
  IF diff = "" \/ trimString(diff) = "" THEN FALSE
  ELSE LET baseMatch == matchPathLine(diff, "<<<")
           prMatch == matchPathLine(diff, ">>>")
       IN IF ~baseMatch.matched \/ ~prMatch.matched THEN TRUE
          ELSE trimString(baseMatch.group) # trimString(prMatch.group)

\* Array.prototype.join("\n")
RECURSIVE joinLines(_)
joinLines(lines) ==
  IF Len(lines) = 0 THEN ""
  ELSE IF Len(lines) = 1 THEN lines[1]
  ELSE lines[1] \o "\n" \o joinLines(Tail(lines))

\* String.prototype.split(/\r?\n/)
RECURSIVE splitLines(_)
splitLines(str) ==
  LET breaks == { i \in 1..Len(str) : Char(str, i) = "\n" }
      b == Min(breaks)
      cut == IF b > 1 /\ Char(str, b - 1) = "\r" THEN b - 2 ELSE b - 1
  IN IF breaks = {} THEN << str >>
     ELSE << SubSeq(str, 1, cut) >> \o splitLines(SubSeq(str, b + 1, Len(str)))

\* ---- isNixpkgsMinorUpdateLine
\* [A-Z.] and \d
IsStatusChar(c) ==
  c \in {"A", "B", "C", "D", "E", "F", "G", "H", "I", "J", "K", "L", "M", "N", "O", "P",
         "Q", "R", "S", "T", "U", "V", "W", "X", "Y", "Z", "."}
IsDigit(c) == c \in {"0", "1", "2", "3", "4", "5", "6", "7", "8", "9"}

startsWith(str, prefix) ==
  Len(str) >= Len(prefix) /\ SubSeq(str, 1, Len(prefix)) = prefix
endsWith(str, suffix) ==
  Len(str) >= Len(suffix) /\ SubSeq(str, Len(str) - Len(suffix) + 1, Len(str)) = suffix
includes(str, c) == \E i \in 1..Len(str) : Char(str, i) = c

\* line.match(/^\[([A-Z.]+)\]\s+(\S+)\s+(.+?)\s+->\s+(.+)$/): the groups of the
\* match the engine finds first (greedy \s+, \S+ and .+, lazy .+?).
matchUpdateLine(line) ==
  LET n == Len(line)
      \* group 1 is 2..s1-1: the longest run of [A-Z.]
      s1 == Min({ q \in 2..(n + 1) : q = n + 1 \/ ~IsStatusChar(Char(line, q)) })
      \* group 2 is p..a-1: the longest run of \S after the \s+
      p == SpaceEnd(line, s1 + 1)
      a == Min({ q \in p..(n + 1) : q = n + 1 \/ IsSpace(Char(line, q)) })
      b == SpaceEnd(line, a)
      arrows == { k \in 1..(n - 1) : SubSeq(line, k, k + 1) = "->" }
      \* \s+(.+)$ after the arrow at k
      After(k) ==
        LET e == SpaceEnd(line, k + 2)
        IN /\ e > k + 2
           /\ IF e <= n THEN \A i \in e..n : ~IsLineTerminator(Char(line, i))
                        ELSE \E q \in (k + 3)..n :
                               \A i \in q..n : ~IsLineTerminator(Char(line, i))
      \* the start of the run of \s that ends just before k
      SpaceStart(k) == Min({ q \in 1..k : \A i \in q..(k - 1) : IsSpace(Char(line, i)) })
      \* group 3 from g on, for the arrow at k: where it ends at the least
      End3(g, k) == Max({g, SpaceStart(k) - 1})
      Cand(g, k) ==
        /\ End3(g, k) <= k - 2
        /\ \A i \in g..End3(g, k) : ~IsLineTerminator(Char(line, i))
        /\ After(k)
      head == /\ n >= 1 /\ Char(line, 1) = "["
              /\ s1 > 2 /\ s1 <= n /\ Char(line, s1) = "]"
              /\ p > s1 + 1 /\ a > p /\ b > a
      starts == IF head THEN { g \in (a + 1)..b : \E k \in arrows : Cand(g, k) } ELSE {}
      \* the groups when group 3 starts at g and the arrow is at k
      Groups(g, k) ==
        [matched |-> TRUE,
         g1 |-> SubSeq(line, 2, s1 - 1),
         g2 |-> SubSeq(line, p, a - 1),
         g3 |-> SubSeq(line, g, End3(g, k)),
         g4 |-> SubSeq(line, k + 2, n)]
      \* the arrow that ends the lazy group 3 first
      FirstArrow(g) ==
        CHOOSE k \in arrows :
          /\ Cand(g, k)
          /\ \A k2 \in arrows : Cand(g, k2) => End3(g, k) <= End3(g, k2)
      From(g) == Groups(g, FirstArrow(g))
  IN IF starts = {} THEN [matched |-> FALSE, g1 |-> "", g2 |-> "", g3 |-> "", g4 |-> ""]
     ELSE From(Max(starts))

\* mutant: only the major number compared
extractMajorMinorMajorOnly(version) ==
  LET n == Len(version)
      d1 == Min({ q \in 1..(n + 1) : q = n + 1 \/ ~IsDigit(Char(version, q)) })
  IN IF d1 > 1 /\ d1 <= n /\ Char(version, d1) = "." /\ endsWith(version, ".drv")
       THEN SubSeq(version, 1, d1 - 1)
       ELSE ""

\* version.match(/^(\d+\.\d+)\..+\.drv$/): group 1, "" for no match
extractMajorMinor(version) ==
  LET n == Len(version)
      d1 == Min({ q \in 1..(n + 1) : q = n + 1 \/ ~IsDigit(Char(version, q)) })
      d2 == Min({ q \in (d1 + 1)..(n + 1) : q = n + 1 \/ ~IsDigit(Char(version, q)) })
  IN IF /\ d1 > 1 /\ d1 <= n /\ Char(version, d1) = "."
        /\ d2 > d1 + 1 /\ d2 <= n /\ Char(version, d2) = "."
        /\ n - d2 >= 5
        /\ endsWith(version, ".drv")
        /\ \A i \in (d2 + 1)..n : ~IsLineTerminator(Char(version, i))
       THEN SubSeq(version, 1, d2 - 1)
       ELSE ""

isNixpkgsMinorUpdateLine(line) ==
  LET SameMajorMinor(beforeMajorMinor, afterMajorMinor) ==
        /\ beforeMajorMinor # ""
        /\ afterMajorMinor # ""
        /\ beforeMajorMinor = afterMajorMinor
      MinorChange(beforeVersion, afterVersion) ==
        /\ ~includes(beforeVersion, ",") /\ ~includes(afterVersion, ",")
        /\ endsWith(beforeVersion, ".drv") /\ endsWith(afterVersion, ".drv")
        /\ SameMajorMinor(extractMajorMinor(beforeVersion), extractMajorMinor(afterVersion))
      MinorUpdate(match) ==
        /\ match.matched
        /\ match.g1 = "U."
        /\ startsWith(match.g2, "nixos-system-") \/ match.g2 = "darwin-system"
        /\ MinorChange(trimString(match.g3), trimString(match.g4))
  IN MinorUpdate(matchUpdateLine(line))

\* mutant: the blank line after a dropped CHANGED header dropped with it
filterNixpkgsMinorUpdatesWithBlank(diff) ==
  IF diff = "" \/ trimString(diff) = "" THEN diff
  ELSE LET Pushed(filteredLines, kept) ==
             [i \in 1..Cardinality(kept) |->
                filteredLines[CHOOSE k \in kept : Cardinality({ j \in kept : j <= k }) = i]]
           WithoutEmptyHeaders(filteredLines) ==
             Pushed(filteredLines,
                    { i \in DOMAIN filteredLines :
                        /\ ~(/\ trimString(filteredLines[i]) = "CHANGED"
                             /\ i + 1 <= Len(filteredLines)
                             /\ trimString(filteredLines[i + 1]) = "")
                        /\ ~(/\ trimString(filteredLines[i]) = ""
                             /\ i > 1
                             /\ trimString(filteredLines[i - 1]) = "CHANGED") })
       IN joinLines(WithoutEmptyHeaders(
            SelectSeq(splitLines(diff), LAMBDA line : ~isNixpkgsMinorUpdateLine(line))))

\* filterNixpkgsMinorUpdates(diff): the minor-update lines are filtered out,
\* then a CHANGED header is dropped when the line after it is blank
filterNixpkgsMinorUpdates(diff) ==
  IF diff = "" \/ trimString(diff) = "" THEN diff
  ELSE LET \* output.push(line) for the lines at kept, in the order of the lines
           Pushed(filteredLines, kept) ==
             [i \in 1..Cardinality(kept) |->
                filteredLines[CHOOSE k \in kept : Cardinality({ j \in kept : j <= k }) = i]]
           WithoutEmptyHeaders(filteredLines) ==
             Pushed(filteredLines,
                    { i \in DOMAIN filteredLines :
                        ~(/\ trimString(filteredLines[i]) = "CHANGED"
                          /\ i + 1 <= Len(filteredLines)
                          /\ trimString(filteredLines[i + 1]) = "") })
       IN joinLines(WithoutEmptyHeaders(
            SelectSeq(splitLines(diff), LAMBDA line : ~isNixpkgsMinorUpdateLine(line))))

\* ---- sanitizeBranchName and the worktree path
\* [a-zA-Z0-9-]
IsBranchChar(c) ==
  \/ c \in {"a", "b", "c", "d", "e", "f", "g", "h", "i", "j", "k", "l", "m", "n", "o", "p",
            "q", "r", "s", "t", "u", "v", "w", "x", "y", "z", "-"}
  \/ (IsStatusChar(c) /\ c # ".")
  \/ IsDigit(c)

\* only "/" is replaced
RECURSIVE sanitizeBranchNameSlashes(_)
sanitizeBranchNameSlashes(ref) ==
  IF ref = "" THEN ""
  ELSE (IF Char(ref, 1) = "/" THEN "-" ELSE Char(ref, 1))
       \o sanitizeBranchNameSlashes(SubSeq(ref, 2, Len(ref)))

\* sanitizeBranchName(ref): ref.replace(/[^a-zA-Z0-9-]/g, "-")
RECURSIVE sanitizeBranchName(_)
sanitizeBranchName(ref) ==
  IF ref = "" THEN ""
  ELSE (IF IsBranchChar(Char(ref, 1)) THEN Char(ref, 1) ELSE "-")
       \o sanitizeBranchName(SubSeq(ref, 2, Len(ref)))

\* createWorktree: nodePath.join(fs.realpathSync(os.tmpdir()),
\*                               `dix-base-${sanitizeBranchName(baseRef)}-${runId}`)
worktreePath(baseRef, runId) ==
  "/tmp" \o "/" \o "dix-base-" \o sanitizeBranchName(baseRef) \o "-" \o runId

\* ---- what the utility functions are applied to
\* truncateDiff: a diff and a limit
TruncateInputs ==
  LET diffs == { << Lit("small diff") >>, << >> }
               \cup { << Rep(c, len) >> :
                        c \in {"x", "y"},
                        len \in DiffLengths \cup {999, 1000, 1001, 5000, 59999} }
  IN { [fn |-> "truncateDiff", arg |-> [diff |-> d, maxLength |-> m]] :
         d \in diffs, m \in {1000, 8571, 60000} }

\* hasDixChanges: diffs of up to MaxLines lines of dix output
HasDixChangesInputs ==
  LET PathLines ==
        { "<<< /nix/store/a.drv", "<<<   /nix/store/a.drv ", ">>> /nix/store/a.drv",
          ">>> /nix/store/b.drv", "<<<", ">>>", "/nix/store/a.drv", "", "  ",
          "DIFF: 0 bytes" }
  IN { [fn |-> "hasDixChanges", arg |-> joinLines(ls)] :
         ls \in UNION { [1..k -> PathLines] : k \in 0..MaxLines } }

\* filterNixpkgsMinorUpdates: diffs of up to MaxLines lines of dix output
FilterInputs ==
  LET UpdateLines ==
        { "CHANGED", "", "SIZE: 10.0 MiB -> 10.0 MiB", "<<< /nix/store/old.drv",
          "[U.] nixos-system-eule 26.05.1.a.drv -> 26.05.2.b.drv",
          "[U.] nixos-system-eule 25.11.1.a.drv -> 26.05.2.b.drv",
          "[U.] hello 1.0.drv -> 1.1.drv" }
  IN { [fn |-> "filterNixpkgsMinorUpdates", arg |-> joinLines(ls)] :
         ls \in UNION { [1..k -> UpdateLines] : k \in 0..MaxLines } }

\* sanitizeBranchName: a base ref and a run id
SanitizeInputs ==
  LET BaseRefs ==
        { "main", "feature-123", "feature/new-feature", "user/name/branch", "branch:name",
          "branch.name", "branch@name", "refs/heads/feature/test", "release_1.2 rc", "",
          "v1.0.0", "Feature/UPPER", "a..b", "-", "dependabot/npm_and_yarn/effect-3.0" }
  IN { [fn |-> "sanitizeBranchName", arg |-> [baseRef |-> b, runId |-> r]] :
         b \in BaseRefs, r \in { "run1", "12345", "0b9e7d5c-uuid" } }

\* a dix entry line `[status] package before -> after`
updateLine(status, packageName, beforeVersion, afterVersion) ==
  "[" \o status \o "] " \o packageName \o " " \o beforeVersion \o " -> " \o afterVersion

\* isNixpkgsMinorUpdateLine: the parts of an entry line
MinorUpdateInputs ==
  LET Versions ==
        { "26.05.20251225.3e2499d.drv", "26.05.20251228.c0b0e0f.drv",
          "25.11.20251101.aaaaaaa.drv", "26.5.20251225.3e2499d.drv", "26.05.20251225.3e2499d",
          "26.05.1.a.drv, 26.05.1.c.drv", "26.05.drv", "unstable.drv" }
  IN { [fn |-> "isNixpkgsMinorUpdateLine",
        arg |-> [status |-> st, packageName |-> pkg, beforeVersion |-> bv,
                 afterVersion |-> av]] :
         st \in { "U.", "D.", "A.", "U", ".." },
         pkg \in { "nixos-system-eule", "darwin-system", "darwin-system-mac", "nixos-system",
                   "hello", "my-nixos-system-eule" },
         bv \in Versions, av \in Versions }

InitUtils ==
  /\ fnIn \in TruncateInputs \cup HasDixChangesInputs \cup FilterInputs \cup SanitizeInputs
              \cup MinorUpdateInputs
  /\ fnOut = [done |-> FALSE, val |-> << >>]
  /\ NoRun

UtilReturn(val) ==
  /\ ~fnOut.done
  /\ fnOut' = [done |-> TRUE, val |-> val]
  /\ UNCHANGED << inputVars, fmtIn, fmtOut, fnIn, topVars, histVars, pc, outcome,
                  interruptPending, interruptedAt, finalizer, releaseRuns, prefetchVars,
                  targetVars, returned, inflight, calls, wtExists, savedState, cleanupVars >>

TruncateDiff ==
  /\ fnIn.fn = "truncateDiff"
  /\ UtilReturn(truncateDiff(fnIn.arg.diff, fnIn.arg.maxLength))

HasDixChanges ==
  /\ fnIn.fn = "hasDixChanges"
  /\ UtilReturn(hasDixChanges(fnIn.arg))

\* the filter applied to a diff, and once more to what it returned
FilterNixpkgsMinorUpdates ==
  /\ fnIn.fn = "filterNixpkgsMinorUpdates"
  /\ LET once == filterNixpkgsMinorUpdates(fnIn.arg)
     IN UtilReturn([once |-> once, twice |-> filterNixpkgsMinorUpdates(once)])

\* createWorktree's path for a base ref and a run id
SanitizeBranchName ==
  /\ fnIn.fn = "sanitizeBranchName"
  /\ UtilReturn([sanitized |-> sanitizeBranchName(fnIn.arg.baseRef),
                 path |-> worktreePath(fnIn.arg.baseRef, fnIn.arg.runId)])

\* an entry line classified, and the filter applied to the line alone
IsNixpkgsMinorUpdateLine ==
  /\ fnIn.fn = "isNixpkgsMinorUpdateLine"
  /\ LET Classified(line) ==
           UtilReturn([line |-> line,
                       minor |-> isNixpkgsMinorUpdateLine(line),
                       filtered |-> filterNixpkgsMinorUpdates(line)])
     IN Classified(updateLine(fnIn.arg.status, fnIn.arg.packageName,
                              fnIn.arg.beforeVersion, fnIn.arg.afterVersion))

NextUtils ==
  \/ TruncateDiff
  \/ HasDixChanges
  \/ FilterNixpkgsMinorUpdates
  \/ SanitizeBranchName
  \/ IsNixpkgsMinorUpdateLine

SpecUtils == InitUtils /\ [][NextUtils]_vars

\* ------------------------------------------------- properties
\* createWorktree's acquisition succeeded (the path is saved only then)
Acquired == savedState = WorktreePath

IsReleaseCall(c) == c.by = "release"
ReleaseCalls == SelectSeq(calls, IsReleaseCall)

AllOk(obs) == \A k \in DOMAIN obs : obs[k].exit = 0

TargetFailed(i) ==
  tprog[i].base = "failed" \/ tprog[i].head = "failed" \/ tprog[i].dix = "failed"

\* C1: when the acquisition succeeded and the pipeline scope has ended (in
\* success, in a failure of a later step or in interruption), the release,
\* removeWorktree on the recorded path, has run exactly once in the main run;
\* it never runs more than once.
C1_ReleaseExactlyOnce ==
  /\ releaseRuns <= 1
  /\ Len(ReleaseCalls) <= 2
  /\ (pc = "done" /\ Acquired) =>
       /\ releaseRuns = 1
       /\ Len(ReleaseCalls) >= 1
       /\ ReleaseCalls[1] = ProbeCall("release", savedState)
       /\ Len(ReleaseCalls) = 2 => ReleaseCalls[2] = RemoveCall("release", savedState)

C1_Witness ==
  /\ pc = "done" /\ Acquired /\ releaseRuns = 1
  /\ outcome.kind = "failure" /\ outcome.error.tag = "NixPathInfoError"

\* C2 as stated: when getDixDiff has failed for a target and the run has
\* ended, the run failed with NixDixError and no worktree exists at the path.
C2_Original ==
  (pc = "done" /\ \E i \in 1..N : tprog[i].dix = "failed") =>
    /\ outcome.kind = "failure" /\ outcome.error.tag = "NixDixError"
    /\ ~wtExists

\* C2 amended: when getDixDiff has failed for a target and the run has ended,
\* the run failed with NixDixError and the release has run once; no worktree
\* exists at the path unless the release's existence probe or its force-remove
\* failed (the release is best effort).
C2_DiffFailureReleases ==
  (pc = "done" /\ \E i \in 1..N : tprog[i].dix = "failed") =>
    /\ outcome.kind = "failure" /\ outcome.error.tag = "NixDixError"
    /\ releaseRuns = 1
    /\ Len(seen.release) >= 1
    /\ AllOk(seen.release) => ~wtExists

C2_Witness ==
  /\ pc = "done" /\ \E i \in 1..N : tprog[i].dix = "failed"
  /\ outcome.error.tag = "NixDixError"
  /\ AllOk(seen.release) /\ Len(seen.release) = 2 /\ ~wtExists

\* C3: when the pipeline is interrupted after the worktree was acquired (during
\* prefetch, a resolution or a diff invocation), the release runs as it does on
\* normal completion: the probe of the recorded path, then the force-remove
\* when the probe reported the worktree.
C3_ReleaseOnInterrupt ==
  (pc = "done" /\ outcome.kind = "interrupted" /\ Acquired) =>
    /\ releaseRuns = 1
    /\ Len(seen.release) >= 1
    /\ seen.release[1].cmd = "probe"
    /\ ReleaseCalls[1] = ProbeCall("release", WorktreePath)
    /\ (Len(ReleaseCalls) = 2) = (seen.release[1].exit = 0)
    /\ AllOk(seen.release) => ~wtExists

C3_Witness ==
  /\ pc = "done" /\ outcome.kind = "interrupted" /\ Acquired
  /\ interruptedAt = "dix"
  /\ releaseRuns = 1 /\ ~wtExists

\* C4 as stated: when the main process ended after this run's worktree was
\* created and without its release having run, the cleanup invocation, once it
\* has finished (its git commands succeeding), has read the path from the
\* state key and no worktree exists at the path.
C4_CleanupRecovers ==
  (cpc = "done" /\ pc = "killed" /\ wtCreated /\ releaseRuns = 0 /\ AllOk(seen.cleanup)) =>
    /\ cleanupPath = WorktreePath
    /\ ~wtExists

\* C5: every invocation of the diff tool has the base worktree path as its
\* --inputs-from context, never the live directory of the PR head.
C5_InputsFromWorktree ==
  \A k \in DOMAIN calls :
    calls[k].cmd = "dix" =>
      /\ calls[k].ref = FlakeRef("path", WorktreePath, "", "")
      /\ calls[k].ref.path # directory

C5_Witness ==
  /\ directory = Cwd
  /\ \E k \in DOMAIN calls : calls[k].cmd = "dix" /\ calls[k].target = 2

\* C6: when processDiffResults succeeds, its result list has exactly one
\* DiffResult per requested target, in the order of the targets: result i has
\* target i's displayName and attribute path, empty diffs included.
C6_OneResultPerTarget ==
  outcome.kind = "success" =>
    /\ Len(results) = Len(attributes)
    /\ \A i \in 1..Len(attributes) :
         /\ results[i].displayName = attributes[i].displayName
         /\ results[i].attributePath = attributes[i].attribute
    /\ returned.ok => returned.val = results

C6_Witness ==
  /\ returned.ok /\ Len(returned.val) = 2
  /\ attributes[1] # attributes[2]
  /\ returned.val[1].diff = "" /\ returned.val[2].diff # ""

\* C7: no two resolution, build or diff calls of different targets are in
\* flight together, and a call of a later target is issued only when no call
\* of an earlier target is in flight and every earlier target has finished.
C7_TargetsSequential ==
  /\ \A x \in inflight, y \in inflight :
       (x.call.target # 0 /\ y.call.target # 0) => x.call.target = y.call.target
  /\ \A k \in DOMAIN calls, l \in DOMAIN calls :
       (k < l /\ calls[k].target # 0 /\ calls[l].target # 0) =>
         calls[k].target <= calls[l].target
  /\ \A k \in DOMAIN calls :
       calls[k].target # 0 =>
         \A j \in 1..(calls[k].target - 1) :
           tprog[j] = [base |-> "ok", head |-> "ok", dix |-> "ok"]

C7_Witness ==
  /\ N = 2 /\ tprog[1].dix = "ok"
  /\ \E x \in inflight : x.call.target = 2 /\ x.call.cmd = "dix"

\* C8 as stated: the base and the head resolution of a target run concurrently,
\* neither waiting for the other to finish before it starts (so once one has
\* completed the other has been started), and both have completed before the
\* diff of the target is invoked.
C8_Original ==
  \A i \in 1..N :
    /\ tprog[i].base = "ok" => tprog[i].head # "todo"
    /\ tprog[i].dix # "todo" => (tprog[i].base = "ok" /\ tprog[i].head = "ok")

\* C8 amended: the base and the head resolution of a target run one after the
\* other, base first (the head resolution starts only when the base resolution
\* has succeeded), and both have completed before the diff of the target is
\* invoked.
C8_BaseThenHeadThenDiff ==
  /\ \A i \in 1..N :
       /\ tprog[i].head # "todo" => tprog[i].base = "ok"
       /\ tprog[i].dix # "todo" => (tprog[i].base = "ok" /\ tprog[i].head = "ok")
  /\ \A x \in inflight, y \in inflight :
       (x.call.by = "pipeline" /\ y.call.by = "pipeline" /\ x.call.target # 0
        /\ x.call.target = y.call.target) => x = y

C8_Witness ==
  \E i \in 1..N :
    /\ tprog[i].dix = "running"
    /\ \E x \in inflight : x.call.cmd = "dix" /\ x.call.target = i
                           /\ x.call.p1 = "/nix/store/aaa" /\ x.call.p2 = "/nix/store/bbb"

\* C9: when a step (base resolution, head resolution, diff) has failed for
\* target i, no command of a later target is ever issued, no result list is
\* returned, and the pipeline fails with the error of that step.
C9_FirstFailureAborts ==
  \A i \in 1..N :
    TargetFailed(i) =>
      /\ \A k \in DOMAIN calls : calls[k].target <= i
      /\ ~returned.ok
      /\ pc # "killed" =>
           /\ outcome.kind = "failure"
           /\ tprog[i].dix = "failed" =>
                /\ outcome.error.tag = "NixDixError"
                /\ outcome.error.p1 = paths[i].base /\ outcome.error.p2 = paths[i].head
           /\ \A s \in Sides :
                tprog[i][s] = "failed" =>
                  /\ outcome.error.tag \in {"NixBuildError", "NixPathInfoError"}
                  /\ outcome.error.ref = WithAttr(RootRef(s), attributes[i].attribute)

C9_Witness ==
  /\ pc = "done" /\ N = 2 /\ attributes[1] # attributes[2]
  /\ tprog[1].head = "failed" /\ outcome.error.tag = "NixBuildError"

\* C10: a failed prefetch (non-zero exit, or the command not starting) never
\* fails the pipeline: after the acquisition the pipeline fails only by a
\* failed step of a target, and once both prefetch calls are over the targets
\* are processed (or, without targets, the pipeline has succeeded).
C10_PrefetchNeverFails ==
  /\ (outcome.kind = "failure" /\ Acquired) => \E i \in 1..N : TargetFailed(i)
  /\ (pc = "prefetch") => \E s \in Sides : prefetch[s] # "done"
  /\ (Acquired /\ outcome.kind \in {"success", "failure"}) =>
       \A s \in Sides : prefetch[s] = "done"

C10_Witness ==
  /\ prefetchLogged /\ logCount = 1
  /\ pc = "done" /\ outcome.kind = "success" /\ Len(results) = 2

\* C11: within one run the prefetch-failure message is logged at most once,
\* also when both prefetch calls (base root and head root) failed; it is logged
\* once when one of them failed.
C11_LoggedAtMostOnce ==
  /\ logCount <= 1
  /\ prefetchFailed >= 1 => logCount = 1
  /\ prefetchFailed = 0 => logCount = 0

C11_Witness ==
  /\ prefetchFailed = 2 /\ logCount = 1
  /\ \A s \in Sides : prefetch[s] = "done"

\* the commands the claim of "no retry" is about
RetryCmds == {"fetch", "add", "prefetch", "build", "pathinfo", "dix"}

SameCommand(c, d) == c.cmd = d.cmd /\ c.target = d.target /\ c.side = d.side

\* C12: no external call is issued twice in a run: at most one fetch, one
\* worktree add, one prefetch per root, and per target one build and one path
\* query per side and one diff invocation; a call that failed is not issued
\* again.
C12_NoRetry ==
  \A k \in DOMAIN calls, l \in DOMAIN calls :
    (k < l /\ calls[k].cmd \in RetryCmds) => ~SameCommand(calls[k], calls[l])

C12_Witness ==
  /\ pc = "done" /\ build /\ N = 2
  /\ tprog[2].head = "failed" /\ outcome.error.tag = "NixPathInfoError"
  /\ Len(SelectSeq(calls, LAMBDA c : c.cmd = "pathinfo")) = 4

\* the git and nix commands of a run
GitNixCmds == {"probe", "remove", "fetch", "add", "prefetch", "build", "pathinfo", "dix"}

NoGitNixCommand == \A k \in DOMAIN calls : calls[k].cmd \notin GitNixCmds

ProgramStarted == pc \notin {"init", "killed"}

\* C13 as stated, for the runs that can invoke createWorktree (every mode input
\* but comment-only): when the mode, the comment strategy, the directory or the
\* attribute list is invalid, the run fails and issues no git or nix command.
C13_Original ==
  (/\ mode # "comment-only"
   /\ (mode \notin Modes \/ ~valid.strategy \/ ~valid.directory \/ valid.attributes # "ok")) =>
    /\ NoGitNixCommand
    /\ ProgramStarted => (pc = "done" /\ top.error.tag # "none")

\* an input the mode of the run reads is invalid
ReadInputInvalid ==
  \/ mode \notin Modes
  \/ mode = "full" /\ (~valid.strategy \/ ~valid.directory \/ valid.attributes # "ok")
  \/ mode = "diff-only" /\ (~valid.directory \/ valid.attributes # "ok")

\* C13 amended: when the mode is invalid, or the comment strategy (full mode),
\* the directory or the attribute list (full and diff-only mode) is invalid,
\* the run fails before createWorktree is invoked: it ends with a validation
\* or configuration error reported by setFailed, having issued no command.
C13_FailFast ==
  ReadInputInvalid =>
    /\ NoGitNixCommand
    /\ ProgramStarted =>
         /\ pc = "done" /\ calls = << >> /\ savedState = ""
         /\ top.error.tag \in { "InvalidModeError", "InvalidCommentStrategyError",
                                "NotPullRequestContextError", "MissingAttributesError",
                                "AttributeParseError", "InvalidDirectoryError",
                                "ConfigError" }
         /\ Len(top.setFailed) = 1

C13_Witness ==
  /\ mode = "full" /\ valid.strategy /\ valid.pr /\ valid.config
  /\ valid.attributes = "ok" /\ ~valid.directory
  /\ pc = "done" /\ top.error.tag = "InvalidDirectoryError" /\ calls = << >>

\* the run ended with an error in the error channel of the program
TypedErrorReachedRun == pc = "done" /\ top.error.tag # "none"

\* C14: every error of the error channel that reaches run() gives exactly one
\* setFailed call with a non-empty message, and the promise of run() resolves;
\* a failure of the pipeline reaches run() as it is; no run calls setFailed
\* more than once, and a run without an error does not call it.
C14_OneSetFailed ==
  /\ Len(top.setFailed) <= 1
  /\ top.error.tag = "none" => top.setFailed = << >>
  /\ top.error.tag # "none" => pc \in {"done", "killed"}
  /\ (pc = "done" /\ outcome.kind = "failure") => top.error = outcome.error
  /\ TypedErrorReachedRun =>
       /\ Len(top.setFailed) = 1
       /\ top.setFailed[1].text # << >>
       /\ top.setFailed[1].text[1] # ""
       /\ top.promise = "resolved"

C14_Witness ==
  /\ pc = "done" /\ mode = "full" /\ top.error.tag = "GitHubApiError"
  /\ Len(top.setFailed) = 1 /\ top.promise = "resolved"

\* the finished command of target i and side s the fiber is about to observe
FinishedFor(cmd, i, s) ==
  { x \in inflight : /\ x.call.cmd = cmd /\ x.call.target = i /\ x.call.side = s
                     /\ x.res.state = "finished" }

\* In build mode every path query follows the realization of the same
\* reference, and after a failed realization the reference is never queried.
BuildPrecedesQuery ==
  /\ \A k \in DOMAIN calls :
       (build /\ calls[k].cmd = "pathinfo") =>
         \E j \in 1..(k - 1) :
           /\ calls[j].cmd = "build" /\ calls[j].ref = calls[k].ref
           /\ calls[j].target = calls[k].target /\ calls[j].side = calls[k].side
  /\ \A i \in 1..N, s \in Sides :
       (tprog[i][s] = "failed" /\ outcome.error.tag = "NixBuildError") =>
         ~\E k \in DOMAIN calls :
            calls[k].cmd = "pathinfo" /\ calls[k].target = i /\ calls[k].side = s

\* The step in which getNixPath observes the realization's result: a non-zero
\* exit fails with NixBuildError carrying the reference and Message(result)
\* and issues nothing; exit 0 issues the path query.
BuildObserved(Message(_)) ==
  \A i \in 1..N, s \in Sides :
    (tprog[i][s] = "building" /\ tprog'[i][s] # "building") =>
      \E x \in FinishedFor("build", i, s) :
        IF x.res.exit # 0
          THEN /\ tprog'[i][s] = "failed"
               /\ outcome' = ExitOf("failure",
                                    Err("NixBuildError", x.call.ref, "", "", Message(x.res)))
               /\ calls' = calls
          ELSE /\ tprog'[i][s] = "querying"
               /\ calls' = Append(calls, PathInfoCall(i, s))

\* C15 as stated: in build mode the realization is issued before the path
\* query; a non-zero exit fails with NixBuildError carrying the reference and
\* the captured stderr, and the path query is not issued.
C15_Original ==
  [][BuildObserved(LAMBDA r : trim(r.err))]_vars

\* C15 amended: in build mode the realization is issued before the path query;
\* a non-zero exit fails with NixBuildError carrying the reference and the
\* captured stderr, or "unknown error" when nothing was captured, and the path
\* query is never issued for that reference.
C15_BuildThenQuery ==
  /\ []BuildPrecedesQuery
  /\ [][BuildObserved(LAMBDA r : IF trim(r.err) = "" THEN "unknown error"
                                                     ELSE trim(r.err))]_vars

C15_Witness ==
  /\ build /\ pc = "done" /\ N = 2 /\ tprog[2].base = "failed"
  /\ outcome.error = Err("NixBuildError", WithAttr(RootRef("base"), attributes[2].attribute),
                         "", "", "build failed")
  /\ Len(SelectSeq(calls, LAMBDA c : c.cmd = "pathinfo")) = 2

\* The step in which getNixPath observes the path query's result.
QueryObserved ==
  \A i \in 1..N, s \in Sides :
    (tprog[i][s] = "querying" /\ tprog'[i][s] # "querying") =>
      \E x \in FinishedFor("pathinfo", i, s) :
        IF x.res.exit # 0 \/ trim(x.res.out) = ""
          THEN /\ tprog'[i][s] = "failed"
               /\ outcome'.kind = "failure"
               /\ outcome'.error.tag = "NixPathInfoError"
               /\ outcome'.error.ref = x.call.ref
               /\ paths' = paths
          ELSE /\ tprog'[i][s] = "ok"
               /\ paths'[i][s] = trim(x.res.out)
               /\ outcome' = outcome

\* C16: getNixPath fails with NixPathInfoError, carrying the reference,
\* whenever the path query exits non-zero or its trimmed output is empty, and
\* returns the trimmed output otherwise; a resolved path is never the empty
\* string, neither as recorded nor as handed to the diff tool.
C16_PathOrError ==
  /\ [](\A i \in 1..N, s \in Sides : (tprog[i][s] = "ok") = (paths[i][s] # ""))
  /\ [](\A k \in DOMAIN calls : calls[k].cmd = "dix" => (calls[k].p1 # "" /\ calls[k].p2 # ""))
  /\ [][QueryObserved]_vars

C16_Witness ==
  /\ pc = "done" /\ N = 1 /\ tprog[1].base = "ok" /\ tprog[1].head = "failed"
  /\ outcome.error.tag = "NixPathInfoError"
  /\ outcome.error.message = "nix path-info returned empty output"

\* The step in which getDixDiff observes the diff tool's result.
DixObserved ==
  \A i \in 1..N :
    (tprog[i].dix = "running" /\ tprog'[i].dix # "running") =>
      \E x \in FinishedFor("dix", i, "none") :
        IF x.res.exit # 0
          THEN /\ tprog'[i].dix = "failed"
               /\ outcome'.kind = "failure"
               /\ outcome'.error.tag = "NixDixError"
               /\ outcome'.error.p1 = paths[i].base
               /\ outcome'.error.p2 = paths[i].head
               /\ results' = results
          ELSE /\ tprog'[i].dix = "ok"
               /\ Len(results') = Len(results) + 1
               /\ results'[Len(results')].diff = trim(x.res.out)
               /\ outcome'.kind # "failure"

\* C17: getDixDiff fails with NixDixError, carrying basePath and prPath,
\* exactly when the diff tool exits non-zero; on exit 0 it succeeds with the
\* tool's stdout as the diff, whatever the tool wrote to stderr.
C17_DixFailsOnExit ==
  [][DixObserved]_vars

C17_Witness ==
  /\ pc = "done" /\ returned.ok /\ N = 1
  /\ returned.val[1].diff = "DIFF"

\* C18: every DiffResult of a run has the base commit SHA as baseRef and the
\* head commit SHA as prRef, never the branch name, the worktree path or the
\* directory; so have the results the run returns.
C18_ResultsCarryShas ==
  /\ \A k \in DOMAIN results :
       /\ results[k].baseRef = BaseSha /\ results[k].prRef = HeadSha
       /\ results[k].baseRef \notin {BaseRefName, WorktreePath, directory}
       /\ results[k].prRef \notin {BaseRefName, WorktreePath, directory}
  /\ returned.ok => returned.val = results

C18_Witness ==
  /\ directory = SubDirectory /\ returned.ok /\ Len(returned.val) = 2
  /\ returned.val[1].baseRef = "abc123def456" /\ returned.val[2].prRef = "789ghi012jkl"

\* C19: every nix command rooted at the base has the reference
\* path:<worktree path>, with ?dir=<relative sub-path> exactly when the
\* directory is a subdirectory of the working directory; every command rooted
\* at the head has the directory itself as its reference.
C19_FlakeRefs ==
  \A k \in DOMAIN calls :
    calls[k].cmd \in {"prefetch", "build", "pathinfo"} =>
      /\ calls[k].side = "base" =>
           /\ calls[k].ref.scheme = "path"
           /\ calls[k].ref.path = "/tmp/dix-base-main-run1"
           /\ calls[k].ref.dir = IF directory = "/workspace/repo" THEN "" ELSE "packages/myflake"
      /\ calls[k].side = "head" =>
           /\ calls[k].ref.scheme = "" /\ calls[k].ref.dir = ""
           /\ calls[k].ref.path = directory
      /\ calls[k].cmd # "prefetch" => calls[k].ref.attr = attributes[calls[k].target].attribute

C19_Witness ==
  /\ directory = SubDirectory
  /\ \E k \in DOMAIN calls :
       /\ calls[k].cmd = "pathinfo" /\ calls[k].side = "base"
       /\ calls[k].ref = FlakeRef("path", WorktreePath, "packages/myflake",
                                  "nixosConfigurations.host1")
  /\ \E k \in DOMAIN calls :
       /\ calls[k].cmd = "pathinfo" /\ calls[k].side = "head"
       /\ calls[k].ref = FlakeRef("", SubDirectory, "", "nixosConfigurations.host1")

\* C20: for every list of results and any options, the report returned by
\* formatAggregatedComment is shorter than the ceiling of 65536 characters.
C20_UnderCeiling ==
  fmtOut.done => Length(fmtOut.text) < MaxCommentLength

\* C21: the 60000-character budget is divided equally over the N results of
\* a report: when all N diffs have the same length L, none is marked
\* truncated if N*L <= budget, and if N*L > budget every one (being longer
\* than budget/N) is cut to budget/N characters followed by a marker that
\* reports its original length L; in any report a result is truncated
\* exactly when it is longer than budget/N.
UniformLength(res, L) == \A k \in DOMAIN res : Length(res[k].diff) = L

TruncationMarker(L) == << Lit("... (truncated, "), Lit(ToString(L)), Lit(" chars total)") >>

CutTo(body, diff, maxLength) ==
  /\ body.truncated
  /\ Length(body.text) = maxLength + Length(TruncationMarker(Length(diff)))
  /\ Len(body.text) > 3
  /\ SubSeq(body.text, Len(body.text) - 2, Len(body.text)) = TruncationMarker(Length(diff))

PassedThrough(body, diff) == ~body.truncated /\ body.text = diff

C21_EqualShare ==
  fmtOut.done /\ Len(fmtIn.results) > 0 =>
    LET res == fmtIn.results
        cnt == Len(res)
    IN /\ \A L \in DiffLengths : UniformLength(res, L) =>
            IF cnt * L <= MaxDiffLength
              THEN \A k \in 1..cnt : PassedThrough(fmtOut.bodies[k], res[k].diff)
              ELSE \A k \in 1..cnt : CutTo(fmtOut.bodies[k], res[k].diff, MaxDiffLength \div cnt)
       /\ \A k \in 1..cnt :
            IF Length(res[k].diff) > MaxDiffLength \div cnt
              THEN CutTo(fmtOut.bodies[k], res[k].diff, MaxDiffLength \div cnt)
              ELSE PassedThrough(fmtOut.bodies[k], res[k].diff)

\* two diffs of 50000 characters: both cut to 30000
C21_Witness ==
  /\ fmtOut.done
  /\ Len(fmtIn.results) = 2
  /\ UniformLength(fmtIn.results, 50000)
  /\ \A k \in 1..2 : fmtOut.bodies[k].truncated
                      /\ Length(fmtOut.bodies[k].text) = 30000 + 34

\* C22: truncateDiff(diff, max) returns the diff unchanged with truncated =
\* false when its length is at most max (exactly max included), and the first
\* max characters followed by "... (truncated, <length> chars total)" with
\* truncated = true when its length is strictly greater than max.
C22_TruncateDiff ==
  fnOut.done /\ fnIn.fn = "truncateDiff" =>
    LET diff == fnIn.arg.diff
        maxLength == fnIn.arg.maxLength
    IN IF Length(diff) <= maxLength
         THEN fnOut.val = [text |-> diff, truncated |-> FALSE]
         ELSE /\ fnOut.val.truncated
              /\ fnOut.val.text = Take(diff, maxLength) \o TruncationMarker(Length(diff))
              /\ Length(Take(diff, maxLength)) = maxLength

\* a diff of exactly 60000 characters, the limit, is returned as it is
C22_Witness ==
  /\ fnOut.done
  /\ fnIn.fn = "truncateDiff"
  /\ fnIn.arg.maxLength = 60000
  /\ Length(fnIn.arg.diff) = 60000
  /\ fnOut.val = [text |-> fnIn.arg.diff, truncated |-> FALSE]

\* C23: the report contains the link to the untruncated data if and only if
\* at least one result was truncated and the formatter was given a run id;
\* postComment passes the run id only when some diff will be truncated and
\* the host provided the run id, and it always passes the repository URL.
Contains(text, str) == \E i \in DOMAIN text : text[i] = Lit(str)

HasArtifactLink(text) == Contains(text, "View full diff in artifacts")

SomeTruncated == \E k \in DOMAIN fmtOut.bodies : fmtOut.bodies[k].truncated

C23_ArtifactLink ==
  fmtOut.done =>
    /\ HasArtifactLink(fmtOut.text) <=> (SomeTruncated /\ fmtOut.options.runId # "")
    /\ fmtIn.params # NoParams =>
         /\ fmtOut.options.repoUrl = "https://github.com/owner/repo"
         /\ IF SomeTruncated /\ fmtIn.params.showArtifactLinkWhenTruncated
              THEN fmtOut.options.runId = fmtIn.params.runId
              ELSE fmtOut.options.runId = ""

\* postComment with the host's run id and a truncated diff: the link is there
C23_Witness ==
  /\ fmtOut.done
  /\ fmtIn.params.showArtifactLinkWhenTruncated
  /\ SomeTruncated
  /\ fmtOut.options.runId = "12345"
  /\ HasArtifactLink(fmtOut.text)
  /\ Contains(fmtOut.text, "12345")

\* C24: a report of exactly one result starts with the marker that names the
\* result's display name; a report of several results starts with the generic
\* marker and the result-specific marker appears nowhere in it.
StartsWith(text, prefix) ==
  Len(text) >= Len(prefix) /\ SubSeq(text, 1, Len(prefix)) = prefix

C24_Markers ==
  fmtOut.done =>
    LET res == fmtIn.results
    IN /\ Len(res) = 1 =>
            StartsWith(fmtOut.text, << Lit("<!-- nix-diff-action:") >>
                                    \o res[1].displayName \o << Lit(" -->") >>)
       /\ Len(res) > 1 =>
            /\ StartsWith(fmtOut.text, << Lit("<!-- nix-diff-action -->") >>)
            /\ ~Contains(fmtOut.text, "<!-- nix-diff-action:")

\* a report of two results has been formatted
C24_Witness ==
  /\ fmtOut.done
  /\ Len(fmtIn.results) = 2
  /\ fmtOut.text[1] = Lit("<!-- nix-diff-action -->")
  /\ Contains(fmtOut.text, "<summary>")

\* C25: for every diff text, hasDixChanges(diff) is false if and only if the
\* "<<<" and ">>>" path lines both parse and their paths are equal after
\* trimming; if either line fails to parse the result is true.
\* A path line parses when a line of the diff starts with the marker and has
\* a path after it.
PathLinesOf(diff, marker) ==
  LET lines == splitLines(diff)
  IN { i \in DOMAIN lines :
         /\ Len(lines[i]) > 3
         /\ SubSeq(lines[i], 1, 3) = marker
         /\ trimString(SubSeq(lines[i], 4, Len(lines[i]))) # "" }

Parses(diff, marker) == PathLinesOf(diff, marker) # {}

PathOf(diff, marker) ==
  LET line == splitLines(diff)[Min(PathLinesOf(diff, marker))]
  IN trimString(SubSeq(line, 4, Len(line)))

C25_HasDixChanges ==
  fnOut.done /\ fnIn.fn = "hasDixChanges" =>
    LET diff == fnIn.arg
        bothParse == Parses(diff, "<<<") /\ Parses(diff, ">>>")
    IN /\ fnOut.val = FALSE <=> (bothParse /\ PathOf(diff, "<<<") = PathOf(diff, ">>>"))
       /\ ~bothParse => fnOut.val = TRUE

\* C26: filterNixpkgsMinorUpdates is idempotent: for every diff d,
\* filter(filter(d)) = filter(d); a second application removes no line.
C26_FilterIdempotent ==
  fnOut.done /\ fnIn.fn = "filterNixpkgsMinorUpdates" => fnOut.val.twice = fnOut.val.once

\* C27: for every base ref the sanitized ref has the length of the base ref
\* and holds only characters of [A-Za-z0-9-], every other character being
\* replaced by "-"; the worktree path is determined by the sanitized ref and
\* the run id, so it is the same for the same (baseRef, runId) pair.
C27_SanitizedRef ==
  fnOut.done /\ fnIn.fn = "sanitizeBranchName" =>
    LET ref == fnIn.arg.baseRef
        out == fnOut.val.sanitized
    IN /\ Len(out) = Len(ref)
       /\ \A i \in 1..Len(ref) :
            /\ IsBranchChar(Char(out, i))
            /\ Char(out, i) = IF IsBranchChar(Char(ref, i)) THEN Char(ref, i) ELSE "-"
       /\ fnOut.val.path = "/tmp/dix-base-" \o out \o "-" \o fnIn.arg.runId
       /\ (ref = BaseRefName /\ fnIn.arg.runId = "run1") => fnOut.val.path = WorktreePath

\* a ref with slashes and other special characters has been sanitized
C27_Witness ==
  /\ fnOut.done
  /\ fnIn.fn = "sanitizeBranchName"
  /\ fnIn.arg.baseRef = "release_1.2 rc"
  /\ fnOut.val.sanitized = "release-1-2-rc"
  /\ fnOut.val.path = "/tmp/dix-base-release-1-2-rc-12345"

\* C28: the release is idempotent.  When removeWorktree is invoked on the
\* path a second time, by the cleanup invocation after the main run's
\* release, and the worktree is already gone, it issues no force-remove and
\* changes nothing: the final state is the one the single invocation left.
IsCleanupCall(c) == c.by = "cleanup"
CleanupCalls == SelectSeq(calls, IsCleanupCall)

SecondRemoveWhenGone ==
  (cpc = "probe" /\ cpc' # "probe" /\ ~wtExists) =>
    /\ cpc' = "done"
    /\ calls' = calls
    /\ wtExists' = wtExists
    /\ savedState' = savedState

ReleasedThenCleaned ==
  (cpc = "done" /\ pc = "done" /\ releaseRuns = 1 /\ AllOk(seen.release)) =>
    /\ ~wtExists
    /\ CleanupCalls = << ProbeCall("cleanup", WorktreePath) >>

C28_ReleaseIdempotent == []ReleasedThenCleaned /\ [][SecondRemoveWhenGone]_vars

\* the release removed the worktree, the cleanup then only probed
C28_Witness ==
  /\ cpc = "done" /\ pc = "done" /\ releaseRuns = 1
  /\ Len(seen.release) = 2 /\ AllOk(seen.release)
  /\ seen.cleanup = << [cmd |-> "probe", exit |-> 0] >>
  /\ ~wtExists

\* C29: removeWorktree never fails.  A failed existence probe counts as "the
\* worktree does not exist" and no force-remove is issued; a failed
\* force-remove is swallowed; the release leaves the exit of the pipeline
\* (its results or its error) as it was, and that exit is what the run ends
\* with.
ReleasePcs == {"closing", "rel_probe", "rel_remove"}

\* a probe of the release or of the cleanup returns failed: no call is issued
FailedProbeRemovesNothing ==
  /\ (pc = "rel_probe" /\ pc' \notin {"rel_probe", "killed"}
      /\ \E x \in Finished("probe", "release") : x.res.exit # 0 /\ x \notin inflight')
       => (calls' = calls /\ pc' # "rel_remove")
  /\ (cpc = "probe" /\ cpc' # "probe"
      /\ \E x \in Finished("probe", "cleanup") : x.res.exit # 0)
       => (calls' = calls /\ cpc' = "done")

\* the release does not touch the exit of the pipeline
ReleaseKeepsExit ==
  (pc \in ReleasePcs /\ pc' # "killed") =>
    /\ outcome' = outcome
    /\ results' = results
    /\ pc' = "done" => (outcome.kind = "failure" /\ top'.error = outcome.error)
                        \/ outcome.kind = "interrupted"
    /\ pc' = "post" => (outcome.kind = "success" /\ returned' = [ok |-> TRUE, val |-> results])

\* a run whose release failed ends as the pipeline ended
ReleaseFailureNotSurfaced ==
  (pc = "done" /\ releaseRuns = 1 /\ ~AllOk(seen.release) /\ outcome.kind = "failure") =>
    /\ top.error = outcome.error
    /\ top.error.tag # "GitWorktreeError"

C29_ReleaseNeverFails ==
  /\ []ReleaseFailureNotSurfaced
  /\ [][FailedProbeRemovesNothing /\ ReleaseKeepsExit]_vars

\* the pipeline failed in the diff tool, the release's probe failed: the run
\* ends with the diff tool's error and no force-remove was issued
C29_Witness ==
  /\ pc = "done" /\ releaseRuns = 1
  /\ seen.release = << [cmd |-> "probe", exit |-> 1] >>
  /\ Len(ReleaseCalls) = 1
  /\ outcome.kind = "failure" /\ top.error.tag = "NixDixError"

\* C30: the two prefetch calls (base root and head root) are started without
\* ordering between them: each can start whatever the state of the other, so
\* they can be in flight together and in either order; and both have
\* completed, successfully or not, before the first resolution of the first
\* target starts.
PrefetchUnordered ==
  \A s \in Sides : (pc = "prefetch" /\ prefetch[s] = "todo") => ENABLED PrefetchStart(s)

IsResolutionCall(c) == c.cmd \in {"build", "pathinfo", "dix"}

PrefetchOverBeforeTargets ==
  (\E k \in DOMAIN calls : IsResolutionCall(calls[k])) =>
    /\ \A s \in Sides : prefetch[s] = "done"
    /\ ~\E x \in inflight : x.call.cmd = "prefetch"
    /\ \A s \in Sides : \E j \in DOMAIN calls :
         /\ calls[j] = PrefetchCall(s)
         /\ \A k \in DOMAIN calls : IsResolutionCall(calls[k]) => j < k

C30_PrefetchBeforeTargets == PrefetchUnordered /\ PrefetchOverBeforeTargets

\* the head root's prefetch was started before the base root's, one of the
\* two failed, and the first resolution of the first target has started
C30_Witness ==
  /\ \E j, k \in DOMAIN calls :
       j < k /\ calls[j] = PrefetchCall("head") /\ calls[k] = PrefetchCall("base")
  /\ prefetchFailed = 1
  /\ N >= 1 /\ tprog[1].base \in {"building", "querying"}
  /\ \E x \in inflight : x.call.target = 1 /\ x.call.side = "base"

\* C31: the base and the head resolution of a target run one after the other.
\* Once a resolver or diff command has been issued (the prefetch is over, C30)
\* at most one resolver or diff command is in flight at any time; a head
\* resolution of a target is issued only when the base resolution of the
\* target has completed; and when the base resolution of a target has failed
\* no head resolution of that target is ever issued.
NixCommandsInFlight == { x \in inflight : IsResolutionCall(x.call) }

HeadCallsOf(i) ==
  { k \in DOMAIN calls :
      IsResolutionCall(calls[k]) /\ calls[k].target = i /\ calls[k].side = "head" }

C31_BaseThenHead ==
  /\ Cardinality(NixCommandsInFlight) <= 1
  /\ NixCommandsInFlight # {} => ~\E x \in inflight : x.call.cmd = "prefetch"
  /\ \A i \in 1..N :
       /\ HeadCallsOf(i) # {} =>
            /\ tprog[i].base = "ok" /\ paths[i].base # ""
            /\ ~\E x \in inflight : x.call.target = i /\ x.call.side = "base"
            /\ \A k \in HeadCallsOf(i) :
                 \E j \in 1..(k - 1) : calls[j] = PathInfoCall(i, "base")
       /\ tprog[i].base = "failed" => (HeadCallsOf(i) = {} /\ tprog[i].head = "todo")

\* the base resolution of the second target failed in its path query: the run
\* is over and no head resolution of that target was issued
C31_Witness ==
  /\ N = 2 /\ pc = "done"
  /\ tprog[1].head = "ok" /\ HeadCallsOf(1) # {}
  /\ tprog[2].base = "failed" /\ outcome.error.tag = "NixPathInfoError"
  /\ HeadCallsOf(2) = {}

\* C32: a failure of the stale-worktree pre-cleanup never fails the
\* acquisition.  When the acquisition's probe returns failed, or its
\* force-remove returns (failed or not), the fetch is issued next and the
\* pipeline has not failed; the worktree creation is issued when the fetch
\* has succeeded, so the calls of an acquisition are the probe, the
\* force-remove if the probe listed the path, the fetch, the creation, in
\* that order; and an acquisition fails only in the fetch or in the creation.
IsAcquireCall(c) == c.by = "acquire"
AcquireCalls == SelectSeq(calls, IsAcquireCall)

AcquireCallOrders ==
  { << ProbeCall("acquire", WorktreePath) >>,
    << ProbeCall("acquire", WorktreePath), FetchCall >>,
    << ProbeCall("acquire", WorktreePath), FetchCall, AddCall >>,
    << ProbeCall("acquire", WorktreePath), RemoveCall("acquire", WorktreePath) >>,
    << ProbeCall("acquire", WorktreePath), RemoveCall("acquire", WorktreePath), FetchCall >>,
    << ProbeCall("acquire", WorktreePath), RemoveCall("acquire", WorktreePath), FetchCall,
       AddCall >> }

PreCleanupFailureProceeds ==
  /\ (pc = "acq_probe" /\ pc' \notin {"acq_probe", "killed"}
      /\ \E x \in Finished("probe", "acquire") : x.res.exit # 0)
       => (pc' = "acq_fetch" /\ calls' = Append(calls, FetchCall) /\ outcome' = outcome)
  /\ (pc = "acq_remove" /\ pc' \notin {"acq_remove", "killed"})
       => (pc' = "acq_fetch" /\ calls' = Append(calls, FetchCall) /\ outcome' = outcome)
  /\ (pc = "acq_fetch" /\ pc' \notin {"acq_fetch", "killed"}
      /\ \E x \in Finished("fetch", "acquire") : x.res.exit = 0)
       => (pc' = "acq_add" /\ calls' = Append(calls, AddCall) /\ outcome' = outcome)

AcquisitionFailsInFetchOrCreate ==
  /\ AcquireCalls = << >> \/ AcquireCalls \in AcquireCallOrders
  /\ (outcome.kind = "failure" /\ outcome.error.tag = "GitWorktreeError") =>
       outcome.error.p1 \in {"fetch", "create"}
  /\ (outcome.kind = "failure" /\ ~Acquired) => outcome.error.tag = "GitWorktreeError"

C32_PreCleanupNeverFails ==
  /\ []AcquisitionFailsInFetchOrCreate
  /\ [][PreCleanupFailureProceeds]_vars

\* the force-remove of a stale worktree failed (the worktree is still there):
\* the fetch and the creation were issued after it all the same
C32_Witness ==
  /\ pc = "acq_add"
  /\ wtExists /\ ~wtCreated
  /\ AcquireCalls = << ProbeCall("acquire", WorktreePath),
                       RemoveCall("acquire", WorktreePath), FetchCall, AddCall >>
  /\ outcome.kind = "none"

\* C33: a failed fetch fails the acquisition with GitWorktreeError of
\* operation "fetch" and no worktree add is issued; a failed worktree add
\* fails it with GitWorktreeError of operation "create".  In both cases the
\* worktree path is not written to the persisted state, no release is
\* registered or run, no prefetch, resolution or diff call is issued, and the
\* error is the one the run ends with.
AcquisitionFailed(operation) ==
  /\ outcome.kind = "failure"
  /\ outcome.error.tag = "GitWorktreeError"
  /\ outcome.error.p1 = operation

NothingAfterFailedAcquisition ==
  /\ savedState = ""
  /\ ~finalizer
  /\ releaseRuns = 0
  /\ ReleaseCalls = << >>
  /\ \A k \in DOMAIN calls : calls[k].cmd \notin {"prefetch", "build", "pathinfo", "dix"}
  /\ pc = "done" => top.error = outcome.error

FailedAcquisitionLeavesNothing ==
  /\ AcquisitionFailed("fetch") =>
       /\ NothingAfterFailedAcquisition
       /\ \A k \in DOMAIN calls : calls[k] # AddCall
  /\ AcquisitionFailed("create") =>
       /\ NothingAfterFailedAcquisition
       /\ \E k \in DOMAIN calls : calls[k] = AddCall

FetchOrCreateFailureFails ==
  /\ (pc = "acq_fetch" /\ pc' \notin {"acq_fetch", "killed"}
      /\ \E x \in Finished("fetch", "acquire") : x.res.exit # 0)
       => (AcquisitionFailed("fetch")' /\ calls' = calls /\ pc' = "closing")
  /\ (pc = "acq_add" /\ pc' \notin {"acq_add", "killed"}
      /\ \E x \in Finished("add", "acquire") : x.res.exit # 0)
       => (AcquisitionFailed("create")' /\ calls' = calls /\ pc' = "closing")

C33_FailedAcquisition ==
  /\ []FailedAcquisitionLeavesNothing
  /\ [][FetchOrCreateFailureFails]_vars

\* the worktree add failed: the run is over and ended with the error of the
\* creation, and the cleanup invocation found no saved path
C33_Witness ==
  /\ pc = "done" /\ cpc = "done"
  /\ AcquisitionFailed("create")
  /\ top.error.p1 = "create"
  /\ calls[Len(calls)] = AddCall

\* C34: with build = false no realization (build) command is ever issued and
\* every path query is the derivation-mode query; with build = true every
\* path query is the query of the realized output, never the derivation-mode
\* query.
PathQueries == { k \in DOMAIN calls : calls[k].cmd = "pathinfo" }

C34_BuildOption ==
  /\ ~build =>
       /\ \A k \in DOMAIN calls : calls[k].cmd # "build"
       /\ \A k \in PathQueries : calls[k].p1 = "--derivation"
       /\ \A i \in 1..N, s \in Sides : tprog[i][s] # "building"
  /\ build => \A k \in PathQueries : calls[k].p1 = ""

\* without the build option both paths of a target were resolved and the
\* diff of the target was started: two path queries, no realization
C34_Witness ==
  /\ ~build /\ N >= 1
  /\ tprog[1].dix = "running"
  /\ Cardinality(PathQueries) = 2
  /\ \A k \in PathQueries : calls[k].p1 = "--derivation"

\* C35: filterNixpkgsMinorUpdates removes a "CHANGED" section header exactly
\* when the section became empty by the removal of minor-update lines: the
\* headers of the output are the headers of the input but those whose section
\* had entries, all of them minor-update lines.  (A header that still has an
\* entry is kept, and none is removed from a text without minor-update lines.)
HeadersOf(lines) == { i \in DOMAIN lines : trimString(lines[i]) = "CHANGED" }

\* the entries of the section of the header at i: the lines after it, up to
\* the next blank line or header
SectionEntries(lines, i) ==
  { j \in (i + 1)..Len(lines) :
      \A k \in (i + 1)..j : trimString(lines[k]) # "" /\ k \notin HeadersOf(lines) }

BecameEmpty(lines, i) ==
  /\ SectionEntries(lines, i) # {}
  /\ \A j \in SectionEntries(lines, i) : isNixpkgsMinorUpdateLine(lines[j])

FilterApplied == fnOut.done /\ fnIn.fn = "filterNixpkgsMinorUpdates"

C35_HeaderRemoval ==
  (FilterApplied /\ trimString(fnIn.arg) # "") =>
    LET HeadersLeft(lines, outLines) ==
          Cardinality(HeadersOf(outLines))
            = Cardinality({ i \in HeadersOf(lines) : ~BecameEmpty(lines, i) })
    IN HeadersLeft(splitLines(fnIn.arg), splitLines(fnOut.val.once))

\* C36: an entry line is treated as a minor system update, and filtered out,
\* only if its status is exactly "U.", its package name starts with
\* "nixos-system-" or is "darwin-system", both version strings end in ".drv"
\* and contain no comma, and both have the same leading major.minor; a line
\* that fails one of the conditions is kept as it is.
\* The leading major.minor of a version: its first two dot-separated
\* components when both are numbers, "" when they are not.
LeadingMajorMinor(version) ==
  LET dots == { i \in 1..Len(version) : Char(version, i) = "." }
      Second(first) == Min({ i \in dots : i > first })
      Numeric(from, to) ==
        from <= to /\ \A i \in from..to : IsDigit(Char(version, i))
      Leading(first) ==
        IF Numeric(1, first - 1) /\ Numeric(first + 1, Second(first) - 1)
          THEN SubSeq(version, 1, Second(first) - 1)
          ELSE ""
  IN IF Cardinality(dots) < 2 THEN "" ELSE Leading(Min(dots))

MinorUpdateConditions(entry) ==
  /\ entry.status = "U."
  /\ \/ startsWith(entry.packageName, "nixos-system-")
     \/ entry.packageName = "darwin-system"
  /\ endsWith(entry.beforeVersion, ".drv") /\ endsWith(entry.afterVersion, ".drv")
  /\ ~includes(entry.beforeVersion, ",") /\ ~includes(entry.afterVersion, ",")
  /\ LeadingMajorMinor(entry.beforeVersion) # ""
  /\ LeadingMajorMinor(entry.beforeVersion) = LeadingMajorMinor(entry.afterVersion)

LineClassified == fnOut.done /\ fnIn.fn = "isNixpkgsMinorUpdateLine"

C36_MinorUpdateConditions ==
  LineClassified =>
    /\ fnOut.val.minor => MinorUpdateConditions(fnIn.arg)
    /\ fnOut.val.filtered # fnOut.val.line => fnOut.val.minor
    /\ ~MinorUpdateConditions(fnIn.arg) => fnOut.val.filtered = fnOut.val.line

\* a darwin-system line with the major.minor unchanged was filtered out
C36_Witness ==
  /\ LineClassified
  /\ fnIn.arg.packageName = "darwin-system"
  /\ fnIn.arg.beforeVersion # fnIn.arg.afterVersion
  /\ fnOut.val.minor
  /\ fnOut.val.filtered = ""

\* C37: filterNixpkgsMinorUpdates leaves every other line untouched.  The
\* lines of the input that are neither minor-update lines nor "CHANGED"
\* headers are, in their order, the lines of the output that are not headers;
\* every line of the output is a line of the input, in the order of the input
\* (none is added); and an empty or whitespace-only input is returned as it is.
OtherLines(lines) ==
  SelectSeq(lines, LAMBDA line : /\ ~isNixpkgsMinorUpdateLine(line)
                                 /\ trimString(line) # "CHANGED")

\* a is b with some of its elements left out
RECURSIVE IsSubsequence(_, _)
IsSubsequence(a, b) ==
  IF a = << >> THEN TRUE
  ELSE IF b = << >> THEN FALSE
  ELSE IF Head(a) = Head(b) THEN IsSubsequence(Tail(a), Tail(b))
  ELSE IsSubsequence(a, Tail(b))

C37_OtherLinesUntouched ==
  FilterApplied =>
    LET Untouched(lines, outLines) ==
          \* the empty text is the text of no line and of one empty line
          IF fnOut.val.once = ""
            THEN OtherLines(lines) \in { << >>, << "" >> }
            ELSE /\ OtherLines(outLines) = OtherLines(lines)
                 /\ IsSubsequence(outLines, lines)
    IN IF trimString(fnIn.arg) = ""
         THEN fnOut.val.once = fnIn.arg
         ELSE Untouched(splitLines(fnIn.arg), splitLines(fnOut.val.once))

\* a minor-update line was filtered out of a section with another entry: the
\* header, the other entry and the line after them are left as they were
C37_Witness ==
  /\ FilterApplied
  /\ fnIn.arg = joinLines(<< "CHANGED",
                             "[U.] nixos-system-eule 26.05.1.a.drv -> 26.05.2.b.drv",
                             "[U.] hello 1.0.drv -> 1.1.drv",
                             "SIZE: 10.0 MiB -> 10.0 MiB" >>)
  /\ fnOut.val.once = joinLines(<< "CHANGED", "[U.] hello 1.0.drv -> 1.1.drv",
                                   "SIZE: 10.0 MiB -> 10.0 MiB" >>)

\* C38: in full mode the steps after the pipeline are the artifact upload,
\* then the comment post, then the setting of the diff output, and they begin
\* only when the worktree's release has run.  When the upload fails no
\* comment is posted and no output is set; when the pipeline fails (or is
\* interrupted) there is no upload, no comment and no output.
PostCalls == { k \in DOMAIN calls : calls[k].by = "post" }

RunFullOrder ==
  mode = "full" =>
    /\ \A k \in PostCalls :
         /\ returned.ok /\ outcome.kind \notin {"failure", "interrupted"}
         /\ releaseRuns = 1 /\ Len(seen.release) \in {1, 2}
         /\ ~\E x \in inflight : x.call.by = "release"
         /\ \A j \in DOMAIN calls : calls[j].by \in {"acquire", "pipeline", "release"} => j < k
    /\ \A k \in PostCalls :
         calls[k] = CommentCall => (k > 1 /\ calls[k - 1] = UploadCall("full"))
    /\ Cardinality(PostCalls) <= 2
    /\ output.set =>
         /\ pc = "done" /\ top.promise = "resolved"
         /\ \E k \in PostCalls : calls[k] = CommentCall
    /\ outcome.kind \in {"failure", "interrupted"} => (PostCalls = {} /\ ~output.set)

FailedUploadEndsRunFull ==
  (mode = "full" /\ pc = "upload" /\ pc' \notin {"upload", "killed"}
   /\ \E x \in Finished("upload", "post") : x.res.exit # 0)
    => /\ pc' = "done"
       /\ calls' = calls
       /\ output' = output /\ ~output.set
       /\ top'.error.tag = "ArtifactError"

C38_RunFullOrder == []RunFullOrder /\ [][FailedUploadEndsRunFull]_vars

\* a run in full mode has uploaded, commented and set its output, after the
\* release of the worktree
C38_Witness ==
  /\ mode = "full" /\ pc = "done"
  /\ output.set
  /\ releaseRuns = 1
  /\ \E k \in PostCalls : calls[k] = CommentCall /\ calls[k - 1] = UploadCall("full")

\* C39: after a successful pipeline the "diff" output is a JSON array with
\* one object per DiffResult, in the order of the results, each with the
\* members displayName and diff of the result and no other member; the output
\* is set only when there is at least one result, and a run in full or
\* diff-only mode that ends without failure with results has set it.
\* A reader of JSON texts: arrays of objects whose values are strings.
\* ReadChars reads a string from after its opening quote: [ok, val, next].
RECURSIVE ReadChars(_, _)
ReadChars(text, i) ==
  LET With(c, rest) == [ok |-> rest.ok, val |-> c \o rest.val, next |-> rest.next]
      Unescaped(e) == CASE e = "n" -> "\n" [] e = "\"" -> "\"" [] OTHER -> "\\"
  IN IF i > Len(text) THEN [ok |-> FALSE, val |-> "", next |-> i]
     ELSE IF Char(text, i) = "\"" THEN [ok |-> TRUE, val |-> "", next |-> i + 1]
     ELSE IF Char(text, i) = "\\"
       THEN IF i + 1 <= Len(text) /\ Char(text, i + 1) \in {"n", "\"", "\\"}
              THEN With(Unescaped(Char(text, i + 1)), ReadChars(text, i + 2))
              ELSE [ok |-> FALSE, val |-> "", next |-> i]
     ELSE With(Char(text, i), ReadChars(text, i + 1))

\* the members of an object from text[i] on, up to its closing brace
RECURSIVE ReadMembers(_, _)
ReadMembers(text, i) ==
  LET Fail == [ok |-> FALSE, val |-> << >>, next |-> i]
      Is(j, c) == j <= Len(text) /\ Char(text, j) = c
      More(key, value, rest) ==
        [ok |-> rest.ok, val |-> << << key.val, value.val >> >> \o rest.val,
         next |-> rest.next]
      AfterValue(key, value) ==
        IF ~value.ok THEN Fail
        ELSE IF Is(value.next, "}")
          THEN [ok |-> TRUE, val |-> << << key.val, value.val >> >>, next |-> value.next + 1]
        ELSE IF Is(value.next, ",")
          THEN More(key, value, ReadMembers(text, value.next + 1))
        ELSE Fail
      AfterKey(key) ==
        IF key.ok /\ Is(key.next, ":") /\ Is(key.next + 1, "\"")
          THEN AfterValue(key, ReadChars(text, key.next + 2))
          ELSE Fail
  IN IF Is(i, "\"") THEN AfterKey(ReadChars(text, i + 1)) ELSE Fail

\* the objects of an array from text[i] on, up to its closing bracket
RECURSIVE ReadObjects(_, _)
ReadObjects(text, i) ==
  LET Fail == [ok |-> FALSE, val |-> << >>, next |-> i]
      Is(j, c) == j <= Len(text) /\ Char(text, j) = c
      More(object, rest) ==
        [ok |-> rest.ok, val |-> << object.val >> \o rest.val, next |-> rest.next]
      AfterObject(object) ==
        IF ~object.ok THEN Fail
        ELSE IF Is(object.next, "]")
          THEN [ok |-> TRUE, val |-> << object.val >>, next |-> object.next + 1]
        ELSE IF Is(object.next, ",")
          THEN More(object, ReadObjects(text, object.next + 1))
        ELSE Fail
  IN IF Is(i, "{") THEN AfterObject(ReadMembers(text, i + 1)) ELSE Fail

\* JSON.parse of an array: [ok, val], val the objects as sequences of pairs
ReadArray(text) ==
  LET Whole(objects) ==
        [ok |-> objects.ok /\ objects.next = Len(text) + 1, val |-> objects.val]
  IN IF text = "[]" THEN [ok |-> TRUE, val |-> << >>]
     ELSE IF Len(text) >= 1 /\ Char(text, 1) = "[" THEN Whole(ReadObjects(text, 2))
     ELSE [ok |-> FALSE, val |-> << >>]

C39_DiffOutput ==
  /\ output.set =>
       /\ returned.ok
       /\ Len(returned.val) >= 1
       /\ LET OneEntryPerResult(parsed) ==
                /\ parsed.ok
                /\ Len(parsed.val) = Len(returned.val)
                /\ \A k \in DOMAIN returned.val :
                     parsed.val[k] = << << "displayName", returned.val[k].displayName >>,
                                        << "diff", returned.val[k].diff >> >>
          IN OneEntryPerResult(ReadArray(output.val))
  /\ (/\ mode \in {"full", "diff-only"}
      /\ pc = "done" /\ top.promise = "resolved" /\ top.setFailed = << >>
      /\ N >= 1) => output.set

\* a run over two targets, one without differences, has set its output
C39_Witness ==
  /\ output.set /\ pc = "done" /\ N = 2
  /\ returned.val[1].diff = "" /\ returned.val[2].diff = "DIFF"
  /\ output.val = "[{\"displayName\":\"host1\",\"diff\":\"\"},"
                    \o "{\"displayName\":\"host2\",\"diff\":\"DIFF\"}]"

\* C40: the standalone cleanup invocation issues no git command when no
\* worktree path was saved in the persisted state, and it never fails the
\* host step: a failed probe or a failed force-remove ends the invocation as
\* a successful one does, nothing of the cleanup reaches setFailed or the
\* outputs of the main run, and the invocation is never stuck (what it waits
\* for is in flight, and it can go on when that has finished).
CleanupIssuesNothingUnsaved ==
  (cpc # "idle" /\ cleanupPath = "") => (cpc = "done" /\ CleanupCalls = << >>)

CleanupNeverStuck ==
  /\ cpc \in {"idle", "probe", "remove", "done"}
  /\ cpc = "probe" =>
       /\ \E x \in inflight : x.call = ProbeCall("cleanup", cleanupPath)
       /\ Finished("probe", "cleanup") # {} => ENABLED CleanupProbeReturn
  /\ cpc = "remove" =>
       /\ \E x \in inflight : x.call = RemoveCall("cleanup", cleanupPath)
       /\ Finished("remove", "cleanup") # {} => ENABLED CleanupRemoveReturn
  /\ cpc = "done" => ~\E x \in inflight : x.call.by = "cleanup"

CleanupFailureIsNoFailure ==
  cpc' # cpc =>
    /\ top' = top /\ output' = output /\ pc' = pc
    /\ (cpc = "remove" \/ (cpc = "probe" /\ cpc' # "remove")) => cpc' = "done"

C40_CleanupNeverFails ==
  /\ [](CleanupIssuesNothingUnsaved /\ CleanupNeverStuck)
  /\ [][CleanupFailureIsNoFailure]_vars

\* the main run was killed with the worktree in place and the cleanup's
\* force-remove failed: the invocation is over, the worktree is still there
C40_Witness ==
  /\ pc = "killed" /\ cpc = "done"
  /\ seen.cleanup = << [cmd |-> "probe", exit |-> 0], [cmd |-> "remove", exit |-> 1] >>
  /\ wtExists
  /\ top.setFailed = << >>

====
